---- MODULE Spec2Model ----
(***************************************************************************)
(* A model of the reverse proxy of src/src/index.ts (class ProxyServer).    *)
(*                                                                         *)
(* Strings are sequences of tokens.  A token is either a single special    *)
(* character (".", "/", ":", "*", "|", " ", "?") or a chunk of ordinary     *)
(* characters that holds none of them ("example", "Basic", "api").  The     *)
(* JavaScript string operations the code uses (split, join, slice,          *)
(* startsWith, replace, trim) are defined on such sequences.                *)
(***************************************************************************)
EXTENDS Integers, Sequences, FiniteSets, TLC

VARIABLES
  settings,      \* ProxySettings handed to the constructor
  proxies,       \* this.proxies: the entry table, in insertion order
  certs,         \* this.certs: root domain -> secure context
  servers,       \* this.servers: the listeners of createServers
  autoReload,    \* this.autoReload: handle of the last setInterval, 0 = undefined
  timers,        \* handles of the intervals that are active in the runtime
  disk,          \* the certificates folder: listing order and loadable folders
  loads,         \* loadCertificates calls in flight (async), by id
  starts,        \* start() calls in flight (async)
  events,        \* what the server emitted: sni and error events
  sni,           \* the last SNICallback call and what it handed to cb
  req,           \* the request being handled, with matchProxy's fields
  res,           \* its ServerResponse
  proxyRequest,  \* the upstream ClientRequest of createRequest
  fallbackCalls, \* calls of settings.fallback, each <<req, res>>
  thrown,        \* the handler ended with an uncaught exception
  phase,         \* position of the request being handled
  socket,        \* the client socket of an upgrade request
  proxySocket    \* the upstream socket of an upgrade tunnel

serverVars == <<proxies, certs, servers, autoReload, timers, disk, loads, starts, events, sni>>
requestVars == <<req, res, proxyRequest, fallbackCalls, thrown, phase, socket, proxySocket>>
vars == <<settings, proxies, certs, servers, autoReload, timers, disk, loads, starts,
          events, sni, req, res, proxyRequest, fallbackCalls, thrown, phase, socket,
          proxySocket>>

----------------------------------------------------------------------------
(* JavaScript string operations, on token sequences *)

\* every string of at most n tokens
StrUpTo(tokens, n) == UNION {[1..k -> tokens] : k \in 0..n}

\* s.indexOf(t) + 1 for a one-token t: the first position, 0 when absent
IndexOf(s, t) ==
  IF \E i \in 1..Len(s) : s[i] = t
  THEN CHOOSE i \in 1..Len(s) : s[i] = t /\ \A j \in 1..(i - 1) : s[j] # t
  ELSE 0

\* s.indexOf(p) + 1 for a string p
IndexOfSub(s, p) ==
  LET hits == {i \in 1..(Len(s) - Len(p) + 1) : SubSeq(s, i, i + Len(p) - 1) = p}
  IN IF hits = {} THEN 0 ELSE CHOOSE i \in hits : \A j \in hits : i <= j

\* s.slice(k)
Slice(s, k) == SubSeq(s, k + 1, Len(s))

\* s.startsWith(p)
StartsWith(s, p) == Len(p) <= Len(s) /\ SubSeq(s, 1, Len(p)) = p

\* s.split(sep) for a one-token separator: "" splits to [""]
RECURSIVE Split(_, _)
Split(s, sep) ==
  LET i == IndexOf(s, sep)
  IN IF i = 0 THEN <<s>> ELSE <<SubSeq(s, 1, i - 1)>> \o Split(Slice(s, i), sep)

\* s.split(sep, limit): the first limit parts, the rest is dropped
SplitLimit(s, sep, limit) ==
  LET all == Split(s, sep)
  IN SubSeq(all, 1, IF Len(all) < limit THEN Len(all) ELSE limit)

\* parts.join(sep)
RECURSIVE Join(_, _)
Join(parts, sep) ==
  IF parts = <<>> THEN <<>>
  ELSE IF Len(parts) = 1 THEN parts[1]
  ELSE parts[1] \o <<sep>> \o Join(Tail(parts), sep)

\* s.trim()
RECURSIVE TrimStart(_)
TrimStart(s) == IF s # <<>> /\ Head(s) = " " THEN TrimStart(Tail(s)) ELSE s

RECURSIVE TrimEnd(_)
TrimEnd(s) ==
  IF s # <<>> /\ s[Len(s)] = " " THEN TrimEnd(SubSeq(s, 1, Len(s) - 1)) ELSE s

Trim(s) == TrimEnd(TrimStart(s))

\* s.replace(p, r) for a string pattern: the first occurrence only
ReplaceFirst(s, p, r) ==
  LET i == IndexOfSub(s, p)
  IN IF i = 0 THEN s ELSE SubSeq(s, 1, i - 1) \o r \o SubSeq(s, i + Len(p), Len(s))

\* the part of s before the first token of stops, all of s when there is none
Before(s, stops) ==
  IF \E i \in 1..Len(s) : s[i] \in stops
  THEN SubSeq(s, 1, (CHOOSE i \in 1..Len(s) :
                       s[i] \in stops /\ \A j \in 1..(i - 1) : s[j] \notin stops) - 1)
  ELSE s

\* the part of s from the first token of stops on, "" when there is none
From(s, stops) == SubSeq(s, Len(Before(s, stops)) + 1, Len(s))

----------------------------------------------------------------------------
(* new URL(...) of the WHATWG URL class, as far as the code relies on it.   *)
(* An operator that needs an intermediate value takes it as a parameter of  *)
(* a helper, so that each definition is used at one place.                  *)

\* tokens a host may not hold; the URL constructor throws on them
ForbiddenHostTokens == {" ", "["}
\* chunks of digits
PortTokens == {"8080", "9000"}
\* scheme chunks, the colon included
SchemeTokens == {"http:", "https:"}
\* where the authority of a URL ends
AuthorityStops == {"/", "?", "#"}

\* a chunk in lower case: the URL parser lower-cases the host, and toLowerCase()
LowerToken(t) ==
  IF t = "EXAMPLE" THEN "example" ELSE IF t = "WebSocket" THEN "websocket" ELSE t
Lower(s) == [i \in 1..Len(s) |-> LowerToken(s[i])]

NoUrl == [ok |-> FALSE, protocol |-> <<>>, hostname |-> <<>>, port |-> <<>>,
          pathname |-> <<>>, search |-> <<>>]

\* the path of "path?query#fragment", as written
RawPath(rest) == Before(rest, {"?", "#"})
\* its query, "?" included
Search(rest) == Before(From(rest, {"?"}), {"#"})

HostPort(host, port, rest) ==
  [ok |-> /\ host # <<>>
          /\ \A i \in 1..Len(host) : host[i] \notin ForbiddenHostTokens
          /\ \A i \in 1..Len(port) : port[i] \in PortTokens,
   hostname |-> Lower(host), port |-> port, rest |-> rest]

AuthorityOf(authority, rest) ==
  HostPort(Before(authority, {":"}), Slice(From(authority, {":"}), 1), rest)

\* "host[:port]" followed by a path, as in 'http://' + originHost
ParseAuthority(s) == AuthorityOf(Before(s, AuthorityStops), From(s, AuthorityStops))

\* the URL of a scheme and a parsed authority; the path of http(s) is never empty
UrlOfPath(protocol, a, path, search) ==
  [ok |-> TRUE, protocol |-> protocol, hostname |-> a.hostname, port |-> a.port,
   pathname |-> IF path = <<>> THEN <<"/">> ELSE path, search |-> search]

UrlOf(protocol, a) ==
  IF a.ok THEN UrlOfPath(protocol, a, RawPath(a.rest), Search(a.rest)) ELSE NoUrl

\* an absolute URL "scheme://authority/path?query"
ParseAbsolute(s) ==
  IF s # <<>> /\ s[1] \in SchemeTokens /\ StartsWith(Slice(s, 1), <<"/", "/">>)
  THEN UrlOf(<<s[1]>>, ParseAuthority(Slice(s, 3)))
  ELSE NoUrl

\* the directory of a base path: up to and with its last "/"
RECURSIVE DirName(_)
DirName(p) ==
  IF p = <<>> THEN <<"/">>
  ELSE IF p[Len(p)] = "/" THEN p ELSE DirName(SubSeq(p, 1, Len(p) - 1))

\* a path-relative or path-absolute reference on a base
OnBase(ref, base, path, search) ==
  IF StartsWith(path, <<"/">>)
  THEN [base EXCEPT !.pathname = path, !.search = search]
  ELSE IF path = <<>>
  THEN [base EXCEPT !.search = IF ref = <<>> THEN base.search ELSE search]
  ELSE [base EXCEPT !.pathname = DirName(base.pathname) \o path, !.search = search]

Resolve(ref, base, absolute) ==
  IF absolute.ok THEN absolute
  ELSE IF ref # <<>> /\ ref[1] \in SchemeTokens THEN NoUrl
  ELSE IF ~base.ok THEN NoUrl
  ELSE IF StartsWith(ref, <<"/", "/">>) THEN UrlOf(base.protocol, ParseAuthority(Slice(ref, 2)))
  ELSE OnBase(ref, base, RawPath(ref), Search(ref))

\* new URL(ref, base) for a parsed base; base.ok = FALSE is a missing base and
\* a result with ok = FALSE is the TypeError the constructor throws
ResolveUrl(ref, base) == Resolve(ref, base, ParseAbsolute(ref))

\* the base 'scheme://' + host of the redirects and of matchProxy
HostBase(scheme, host) == UrlOf(<<scheme>>, ParseAuthority(host))

\* the base 'http://localhost' of findProxyEntry
Localhost == [ok |-> TRUE, protocol |-> <<"http:">>, hostname |-> <<"localhost">>,
              port |-> <<>>, pathname |-> <<"/">>, search |-> <<>>]

\* String(url): the href
Href(u) ==
  u.protocol \o <<"/", "/">> \o u.hostname
    \o (IF u.port = <<>> THEN <<>> ELSE <<":">> \o u.port) \o u.pathname \o u.search

----------------------------------------------------------------------------
(* ProxyEntry and the entry table *)

NoTarget == [ok |-> FALSE, protocol |-> <<>>, hostname |-> <<>>, port |-> <<>>,
             pathname |-> <<>>, search |-> <<>>]

\* the field initialisers of class ProxyEntry
DefaultEntry ==
  [domain |-> <<>>, target |-> NoTarget, authorization |-> <<>>, redirectToHttps |-> FALSE,
   redirectToUrl |-> <<>>, redirectToDomain |-> <<>>, headers |-> <<>>, path |-> <<>>,
   cors |-> FALSE, preserveHost |-> FALSE]

\* new ProxyEntry(p): Object.assign(this, p) over the defaults
ProxyEntry(p) == p @@ DefaultEntry

\* a parsed target URL
Target(protocol, hostname, port, pathname) ==
  [ok |-> TRUE, protocol |-> <<protocol>>, hostname |-> hostname, port |-> port,
   pathname |-> pathname, search |-> <<>>]

\* domainFromRequest.split('.').slice(1).join('.')
RequestParentDomain(domainFromRequest) == Join(Tail(Split(domainFromRequest, ".")), ".")

\* the filter of findProxyEntry without the test on the parent domain
DomainMatchesHostOnly(p, domainFromRequest) ==
  \/ p.domain = domainFromRequest
  \/ /\ StartsWith(p.domain, <<"*", ".">>)
     /\ Slice(p.domain, 2) = domainFromRequest

\* the filter of findProxyEntry on one entry
DomainMatches(p, domainFromRequest) ==
  \/ p.domain = domainFromRequest
  \/ /\ StartsWith(p.domain, <<"*", ".">>)
     /\ \/ Slice(p.domain, 2) = RequestParentDomain(domainFromRequest)
        \/ Slice(p.domain, 2) = domainFromRequest

\* byDomain, as the positions in the table of the entries that pass the filter
ByDomain(table, domainFromRequest) ==
  {i \in 1..Len(table) : DomainMatches(table[i], domainFromRequest)}

\* byDomain.find(pred): the first position of a set of positions, 0 when empty
First(S) == IF S = {} THEN 0 ELSE CHOOSE i \in S : \A j \in S : i <= j

\* the path test of findProxyEntry on the bare prefix, without the "/" after it
PathMatchesPrefix(p, requestPath) == p.path # <<>> /\ StartsWith(requestPath, p.path)

\* the path test of findProxyEntry
PathMatches(p, requestPath) ==
  p.path # <<>> /\ (requestPath = p.path \/ StartsWith(requestPath, p.path \o <<"/">>))

\* the choice among the entries that passed the filter by the path tests alone,
\* without the return of lines 394-396 for a single entry
DisambiguateByPath(table, url, byDomain) ==
  IF ~url.ok THEN [thrown |-> TRUE, index |-> 0]
  ELSE IF \E i \in byDomain : PathMatches(table[i], url.pathname)
  THEN [thrown |-> FALSE,
        index |-> First({i \in byDomain : PathMatches(table[i], url.pathname)})]
  ELSE [thrown |-> FALSE, index |-> First({i \in byDomain : table[i].path = <<>>})]

\* lines 394-409: the choice among the entries that passed the filter
Disambiguate(table, url, byDomain) ==
  IF ~url.ok THEN [thrown |-> TRUE, index |-> 0]
  ELSE IF Cardinality(byDomain) = 1 THEN [thrown |-> FALSE, index |-> First(byDomain)]
  ELSE IF \E i \in byDomain : PathMatches(table[i], url.pathname)
  THEN [thrown |-> FALSE,
        index |-> First({i \in byDomain : PathMatches(table[i], url.pathname)})]
  ELSE [thrown |-> FALSE, index |-> First({i \in byDomain : table[i].path = <<>>})]

\* findProxyEntry: the position of the entry returned (0 for null); thrown when
\* new URL(incomingUrl, 'http://localhost') throws
findProxyEntry(table, domainFromRequest, incomingUrl) ==
  Disambiguate(table, ResolveUrl(incomingUrl, Localhost), ByDomain(table, domainFromRequest))

----------------------------------------------------------------------------
(* Requests and responses *)

EmptyMap == [n \in {} |-> <<>>]

\* to.setHeader(name, value)
SetHeader(h, name, value) == (name :> value) @@ h

\* a header that is present and not the empty string (JavaScript truthiness)
Truthy(h, name) == name \in DOMAIN h /\ h[name] # <<>>

\* headers[name] || ''
HeaderOr(h, name, default) == IF Truthy(h, name) THEN h[name] ELSE default

\* every header map that gives each name of a subset of DOMAIN vals one of its values
HeaderMaps(vals) ==
  UNION {{h \in [S -> UNION {vals[n] : n \in S}] : \A n \in S : h[n] \in vals[n]} :
         S \in SUBSET DOMAIN vals}

\* an IncomingMessage
Request(method, url, headers) == [method |-> method, url |-> url, headers |-> headers]

NoRequest == [created |-> FALSE, method |-> "", url |-> NoUrl, headers |-> EmptyMap,
              chunks |-> <<>>, ended |-> 0, response |-> FALSE, error |-> ""]

\* the net.Socket of a connection: what was written to it, what it has received
\* and not handed on, whether it is piped into the other side, whether an error
\* listener is attached, and the error it raised
NewSocket == [destroyed |-> FALSE, written |-> <<>>, readable |-> <<>>, piped |-> FALSE,
              onError |-> FALSE, ended |-> FALSE, error |-> ""]

\* the socket of the upstream, which exists once the upstream has upgraded
NewProxySocket == [open |-> FALSE, written |-> <<>>, readable |-> <<>>, piped |-> FALSE,
                   onError |-> FALSE, ended |-> FALSE, error |-> ""]

\* a fresh ServerResponse
NewResponse == [writeHead |-> <<>>, headers |-> EmptyMap, ended |-> 0, body |-> <<>>]

NoMatch == [thrown |-> FALSE, originHost |-> <<>>, originlUrl |-> NoUrl,
            found |-> FALSE, index |-> 0, proxyEntry |-> DefaultEntry]

\* line 221: [x-forwarded-for, host].filter(Boolean)[0], "" for undefined
OriginHost(r) ==
  IF Truthy(r.headers, "x-forwarded-for") THEN r.headers["x-forwarded-for"]
  ELSE IF Truthy(r.headers, "host") THEN r.headers["host"]
  ELSE <<>>

Matched(table, originHost, originlUrl, entry) ==
  IF entry.thrown THEN [NoMatch EXCEPT !.thrown = TRUE]
  ELSE [thrown |-> FALSE, originHost |-> originHost, originlUrl |-> originlUrl,
        found |-> entry.index # 0, index |-> entry.index,
        proxyEntry |-> IF entry.index = 0 THEN DefaultEntry ELSE table[entry.index]]

MatchUrl(table, r, originHost, originlUrl) ==
  IF ~originlUrl.ok THEN [NoMatch EXCEPT !.thrown = TRUE]
  ELSE Matched(table, originHost, originlUrl,
               findProxyEntry(table, originlUrl.hostname, r.url))

MatchHost(table, r, originHost) ==
  IF originHost = <<>> THEN NoMatch
  ELSE MatchUrl(table, r, originHost, HostBase("http:", originHost))

\* matchProxy (lines 220-228): originHost, originlUrl and proxyEntry of a request;
\* thrown when one of the two URL constructors throws
matchProxy(table, r) == MatchHost(table, r, OriginHost(r))

\* new URL(req.headers.origin).origin; thrown when the constructor throws
OriginOf(u) ==
  [thrown |-> ~u.ok,
   origin |-> u.protocol \o <<"/", "/">> \o u.hostname
                \o (IF u.port = <<>> THEN <<>> ELSE <<":">> \o u.port)]

CorsOrigin(r) == OriginOf(ParseAbsolute(HeaderOr(r.headers, "origin", <<>>)))

\* setCorsHeaders (lines 454-465) with corsOrigin computed
setCorsHeaders(r, h, corsOrigin) ==
  SetHeader(SetHeader(SetHeader(SetHeader(SetHeader(h,
    "vary", <<"Origin">>),
    "access-control-allow-origin", corsOrigin),
    "access-control-allow-headers",
      HeaderOr(r.headers, "access-control-request-headers", <<"*">>)),
    "access-control-allow-methods",
      HeaderOr(r.headers, "access-control-request-method", <<"GET,HEAD,PUT,PATCH,POST,DELETE">>)),
    "access-control-allow-credentials", <<"true">>)

\* setExtraHeaders (lines 375-380): the parts of headersString, each split at ':'
\* with limit 2
SplitPairs(parts) == [i \in 1..Len(parts) |-> SplitLimit(parts[i], ":", 2)]

ExtraHeaderParts(headersString) == SplitPairs(Split(headersString, "|"))

\* a part without ':' (value is undefined) or a key that is no header name throws
PairsThrow(pairs) ==
  \E i \in 1..Len(pairs) : Len(pairs[i]) < 2 \/ Len(Trim(pairs[i][1])) # 1

RECURSIVE SetParts(_, _)
SetParts(h, pairs) ==
  IF pairs = <<>> THEN h
  ELSE SetParts(SetHeader(h, Trim(pairs[1][1])[1], Trim(pairs[1][2])), Tail(pairs))

Scheme(isSsl) == IF isSsl THEN <<"https">> ELSE <<"http">>

----------------------------------------------------------------------------
(* createRequest: the policy pipeline and the upstream request *)

Status(code, message) == [code |-> code, message |-> message]

\* a response that was given headers h, one status line and res.end()
Responded(h, status) ==
  [fallback |-> FALSE, thrown |-> FALSE, proxyRequest |-> NoRequest,
   res |-> [writeHead |-> <<status>>, headers |-> h, ended |-> 1, body |-> <<>>]]

\* an uncaught exception before anything was done to the response
Throws ==
  [fallback |-> FALSE, thrown |-> TRUE, proxyRequest |-> NoRequest, res |-> NewResponse]

\* lines 305-307: targetUrl.pathname = targetUrl.pathname.replace(path, '')
SetPathname(targetUrl, replaced) ==
  [targetUrl EXCEPT !.pathname =
     IF StartsWith(replaced, <<"/">>) THEN replaced ELSE <<"/">> \o replaced]

StripPath(entry, targetUrl) ==
  IF ~targetUrl.ok \/ entry.path = <<>> THEN targetUrl
  ELSE SetPathname(targetUrl, ReplaceFirst(targetUrl.pathname, entry.path, <<>>))

\* lines 300-307: new URL(req.url.slice(1), target), then the entry's path removed
TargetUrl(r, entry) == StripPath(entry, ResolveUrl(Slice(r.url, 1), entry.target))

\* lines 317-325 on the headers set so far: the host and forwarding headers
ForwardHeaders(r, entry, isSsl, targetUrl, h) ==
  IF entry.preserveHost
  THEN SetHeader(SetHeader(SetHeader(SetHeader(h,
         "host", r.headers["host"]),
         "x-forwarded-for", r.headers["host"]),
         "x-forwarded-proto", Scheme(isSsl)),
         "forwarded", <<"host=">> \o r.headers["host"] \o <<";proto=">> \o Scheme(isSsl))
  ELSE SetHeader(h, "host",
         targetUrl.hostname \o (IF targetUrl.port = <<>> THEN <<>> ELSE <<":">> \o targetUrl.port))

Upstream(r, targetUrl, h) ==
  [created |-> TRUE, method |-> r.method, url |-> targetUrl, headers |-> h,
   chunks |-> <<>>, ended |-> 0, response |-> FALSE, error |-> ""]

\* lines 311-315: the incoming headers, then the entry's extra headers
WithExtras(r, entry, isSsl, targetUrl, pairs) ==
  IF \/ entry.headers # <<>> /\ PairsThrow(pairs)
     \/ entry.preserveHost /\ "host" \notin DOMAIN r.headers
  THEN \* setHeader throws after the upstream request was created; it is not returned
       [Throws EXCEPT !.proxyRequest = Upstream(r, targetUrl, r.headers)]
  ELSE [fallback |-> FALSE, thrown |-> FALSE, res |-> NewResponse,
        proxyRequest |->
          Upstream(r, targetUrl,
                   ForwardHeaders(r, entry, isSsl, targetUrl,
                                  IF entry.headers = <<>> THEN r.headers
                                  ELSE SetParts(r.headers, pairs)))]

ForwardTo(r, entry, isSsl, targetUrl) ==
  IF ~targetUrl.ok THEN Throws
  ELSE WithExtras(r, entry, isSsl, targetUrl, ExtraHeaderParts(entry.headers))

\* lines 300-327: the forward stage
Forward(r, entry, isSsl) == ForwardTo(r, entry, isSsl, TargetUrl(r, entry))

\* incomingHeader of line 258 without .trim()
IncomingAuthorizationUntrimmed(r) ==
  ReplaceFirst(HeaderOr(r.headers, "authorization", <<>>), <<"Basic">>, <<>>)

\* incomingHeader of line 258
IncomingAuthorization(r) ==
  Trim(ReplaceFirst(HeaderOr(r.headers, "authorization", <<>>), <<"Basic">>, <<>>))

\* the test of line 292 without the Origin header, as a handler that answers every
\* OPTIONS request of a cors entry would have it
IsCorsPreflightNoOrigin(r, entry) == r.method = "OPTIONS" /\ entry.cors

\* the test of line 292
IsCorsPreflight(r, entry) ==
  r.method = "OPTIONS" /\ entry.cors /\ Truthy(r.headers, "origin")

\* lines 269-290: a redirect to the resolved newURL
Redirect(newURL, status) ==
  IF newURL.ok THEN Responded(SetHeader(EmptyMap, "location", Href(newURL)), status)
  ELSE Throws

\* lines 292-298
Preflight(r, corsOrigin) ==
  IF corsOrigin.thrown THEN Throws
  ELSE Responded(SetHeader(setCorsHeaders(r, EmptyMap, corsOrigin.origin),
                           "content-length", <<"0">>), Status(204, ""))

\* a redirect to the configured URL with the path of the request after it
RedirectToUrlWithPath(r, entry) ==
  Responded(SetHeader(EmptyMap, "location", entry.redirectToUrl \o Slice(r.url, 1)),
            Status(302, "Moved somewhere else"))

\* lines 277-282
RedirectToUrl(r, entry) ==
  Responded(SetHeader(EmptyMap, "location", entry.redirectToUrl),
            Status(302, "Moved somewhere else"))

\* lines 257-328: the pipeline on a matched entry
Pipeline(r, originHost, entry, isSsl) ==
  IF entry.authorization # <<>> /\ IncomingAuthorization(r) # entry.authorization
  THEN Responded(SetHeader(EmptyMap, "www-authenticate",
                           <<"Basic realm=\"Y u no password\"">>), Status(401, ""))
  ELSE IF entry.redirectToDomain # <<>>
  THEN Redirect(ResolveUrl(r.url, HostBase("https:", entry.redirectToDomain)),
                Status(302, "Moved somewhere else"))
  ELSE IF entry.redirectToUrl # <<>> THEN RedirectToUrl(r, entry)
  ELSE IF entry.redirectToHttps /\ ~isSsl
  THEN Redirect(ResolveUrl(r.url, HostBase("https:", originHost)),
                Status(301, "HTTPS is better"))
  ELSE IF IsCorsPreflight(r, entry) THEN Preflight(r, CorsOrigin(r))
  ELSE Forward(r, entry, isSsl)

\* createRequest that hands to the fallback every request it cannot forward
createRequestNoTarget(r, m, isSsl, hasFallback) ==
  IF ~(m.originlUrl.ok /\ m.found /\ m.proxyEntry.target.ok)
  THEN IF hasFallback
       THEN [fallback |-> TRUE, thrown |-> FALSE, proxyRequest |-> NoRequest,
             res |-> NewResponse]
       ELSE Responded(EmptyMap, Status(404, "Not found"))
  ELSE Pipeline(r, m.originHost, m.proxyEntry, isSsl)

\* createRequest (lines 230-328) on a request with matchProxy's fields m: what it does
\* to the response, whether it calls the fallback, and the upstream request it returns
createRequest(r, m, isSsl, hasFallback) ==
  IF ~(m.originlUrl.ok /\ m.found)
  THEN IF hasFallback
       THEN [fallback |-> TRUE, thrown |-> FALSE, proxyRequest |-> NoRequest,
             res |-> NewResponse]
       ELSE Responded(EmptyMap, Status(404, "Not found"))
  ELSE Pipeline(r, m.originHost, m.proxyEntry, isSsl)

----------------------------------------------------------------------------
(* The request handler *)

\* no request; received holds the body chunks the IncomingMessage has emitted and
\* complete says that it has emitted 'end'
NoReq == [method |-> "", url |-> <<>>, headers |-> EmptyMap, isSsl |-> FALSE, match |-> NoMatch,
          received |-> <<>>, complete |-> FALSE]

\* onRequest going on to its listeners (lines 136-152) whatever createRequest
\* returned
HandledNoReturn(r, isSsl, m, out) ==
  /\ phase = "idle"
  /\ req' = [method |-> r.method, url |-> r.url, headers |-> r.headers,
             isSsl |-> isSsl, match |-> m, received |-> <<>>, complete |-> FALSE]
  /\ res' = out.res
  /\ proxyRequest' = out.proxyRequest
  /\ fallbackCalls' = IF out.fallback THEN fallbackCalls + 1 ELSE fallbackCalls
  /\ thrown' = out.thrown
  /\ phase' = IF out.thrown THEN "thrown" ELSE "forwarding"
  /\ UNCHANGED <<settings, serverVars, socket, proxySocket>>

\* lines 128-134 with matchProxy's fields m and createRequest's outcome out: the
\* handler returns when createRequest gave no upstream request
Handled(r, isSsl, m, out) ==
  /\ phase = "idle"
  /\ req' = [method |-> r.method, url |-> r.url, headers |-> r.headers,
             isSsl |-> isSsl, match |-> m, received |-> <<>>, complete |-> FALSE]
  /\ res' = out.res
  /\ proxyRequest' = out.proxyRequest
  /\ fallbackCalls' = IF out.fallback THEN fallbackCalls + 1 ELSE fallbackCalls
  /\ thrown' = out.thrown
  /\ phase' = IF out.thrown THEN "thrown"
              ELSE IF out.proxyRequest.created THEN "forwarding" ELSE "returned"
  /\ UNCHANGED <<settings, serverVars, socket, proxySocket>>

Dispatch(r, isSsl, m) ==
  Handled(r, isSsl, m,
          IF m.thrown THEN Throws ELSE createRequest(r, m, isSsl, settings.fallback))

\* onRequest (lines 127-153), up to the listeners it attaches: matchProxy, then
\* createRequest; an exception of either leaves the response untouched
onRequest(r, isSsl) == Dispatch(r, isSsl, matchProxy(proxies, r))

\* lines 156-193 with matchProxy's fields m and, for a valid request that matched,
\* the outcome out of createRequest on the socket. A socket has no setHeader and no
\* writeHead: a stage of createRequest that answers throws on its first call of
\* one, and so does proxyReq.on when createRequest returned nothing
Upgrade(r, head, isSsl, m, out) ==
  /\ phase = "idle"
  /\ req' = [method |-> r.method, url |-> r.url, headers |-> r.headers,
             isSsl |-> isSsl, match |-> m, received |-> <<>>, complete |-> FALSE]
  /\ IF m.thrown
     THEN /\ socket' = socket /\ proxyRequest' = NoRequest /\ fallbackCalls' = fallbackCalls
          /\ thrown' = TRUE /\ phase' = "thrown"
     ELSE IF \/ r.method # "GET"                              \* notValid
             \/ ~Truthy(r.headers, "upgrade")
             \/ Lower(r.headers["upgrade"]) # <<"websocket">>
             \/ ~m.found
     THEN /\ socket' = [socket EXCEPT !.destroyed = TRUE]
          /\ proxyRequest' = NoRequest /\ fallbackCalls' = fallbackCalls
          /\ thrown' = FALSE /\ phase' = "returned"
     ELSE IF out.thrown \/ out.fallback \/ out.res # NewResponse
     THEN /\ socket' = socket /\ proxyRequest' = out.proxyRequest
          /\ fallbackCalls' = IF out.fallback THEN fallbackCalls + 1 ELSE fallbackCalls
          /\ thrown' = TRUE /\ phase' = "thrown"
     ELSE /\ socket' = [socket EXCEPT !.readable = head \o @]   \* socket.unshift(head)
          /\ proxyRequest' = [out.proxyRequest EXCEPT !.ended = 1]
          /\ fallbackCalls' = fallbackCalls
          /\ thrown' = FALSE /\ phase' = "upgrading"
  /\ UNCHANGED <<settings, serverVars, res, proxySocket>>

\* onUpgrade (lines 155-194), up to the listeners it attaches; head holds the
\* bytes of the client that were read with the request
onUpgrade(r, head, isSsl) ==
  Upgrade(r, head, isSsl, matchProxy(proxies, r),
          createRequest(r, matchProxy(proxies, r), isSsl, settings.fallback))

\* add on a table with one slot per domain: the entry takes the place of the earlier
\* entries of its domain
addPerDomain(proxy) ==
  /\ proxies' = Append(SelectSeq(proxies, LAMBDA e : e.domain # proxy.domain), proxy)
  /\ UNCHANGED <<settings, certs, servers, autoReload, timers, disk, loads, starts, events, sni,
                 requestVars>>

\* add (lines 122-125)
add(proxy) ==
  /\ proxies' = Append(proxies, proxy)
  /\ UNCHANGED <<settings, certs, servers, autoReload, timers, disk, loads, starts, events, sni,
                 requestVars>>

\* the request is over; the next one starts from a fresh request and response
NextRequest ==
  /\ phase # "idle"
  /\ req' = NoReq
  /\ res' = NewResponse
  /\ proxyRequest' = NoRequest
  /\ fallbackCalls' = 0
  /\ thrown' = FALSE
  /\ phase' = "idle"
  /\ socket' = NewSocket
  /\ proxySocket' = NewProxySocket
  /\ UNCHANGED <<settings, serverVars>>

----------------------------------------------------------------------------
(* The listeners onRequest attaches to the upstream request (lines 139-152) *)

MaxChunks == 2

\* the 'data' listener of the incoming request (line 136) taking the chunk first
RequestDataFirst(chunk) ==
  /\ proxyRequest.created /\ ~req.complete
  /\ phase \in {"forwarding", "responding", "failed", "returned"}
       \/ (phase = "thrown" /\ proxyRequest.response)
  /\ Len(req.received) < MaxChunks
  /\ req' = [req EXCEPT !.received = Append(@, chunk)]
  /\ proxyRequest' = [proxyRequest EXCEPT !.chunks = <<chunk>> \o @]
  /\ UNCHANGED <<settings, serverVars, res, fallbackCalls, thrown, phase, socket, proxySocket>>

\* req.on('data', ...) (line 136): a chunk of the incoming body is written to the
\* upstream request. The listeners of lines 136-137 exist once onRequest got an
\* upstream request from createRequest, and stay whatever the upstream does
RequestData(chunk) ==
  /\ proxyRequest.created /\ ~req.complete
  /\ phase \in {"forwarding", "responding", "failed", "returned"}
       \/ (phase = "thrown" /\ proxyRequest.response)
  /\ Len(req.received) < MaxChunks
  /\ req' = [req EXCEPT !.received = Append(@, chunk)]
  /\ proxyRequest' = [proxyRequest EXCEPT !.chunks = Append(@, chunk)]
  /\ UNCHANGED <<settings, serverVars, res, fallbackCalls, thrown, phase, socket, proxySocket>>

\* req.on('end', ...) (line 137): the incoming body is over, the upstream request
\* is ended
RequestEnd ==
  /\ proxyRequest.created /\ ~req.complete
  /\ phase \in {"forwarding", "responding", "failed", "returned"}
       \/ (phase = "thrown" /\ proxyRequest.response)
  /\ req' = [req EXCEPT !.complete = TRUE]
  /\ proxyRequest' = [proxyRequest EXCEPT !.ended = @ + 1]
  /\ UNCHANGED <<settings, serverVars, res, fallbackCalls, thrown, phase, socket, proxySocket>>

\* setHeaders (lines 446-452): every header of from is set on to
setHeaders(from, to) == from @@ to

\* line 143
IsCorsSimple == req.method # "OPTIONS" /\ req.match.proxyEntry.cors /\ Truthy(req.headers, "origin")

\* lines 141-148 on the response headers set so far; setCorsHeaders may throw
Answered(proxyRes, h, corsOrigin) ==
  IF IsCorsSimple /\ corsOrigin.thrown
  THEN /\ res' = [res EXCEPT !.headers = h]
       /\ thrown' = TRUE
       /\ phase' = "thrown"
  ELSE /\ res' = [res EXCEPT
                    !.headers = IF IsCorsSimple THEN setCorsHeaders(req, h, corsOrigin.origin)
                                ELSE h,
                    !.writeHead = Append(@, Status(proxyRes.statusCode, proxyRes.statusMessage))]
       /\ thrown' = FALSE
       /\ phase' = "responding"

\* the 'response' listener (lines 140-148)
UpstreamResponse(proxyRes) ==
  /\ phase = "forwarding"
  /\ Answered(proxyRes, setHeaders(proxyRes.headers, res.headers), CorsOrigin(req))
  /\ proxyRequest' = [proxyRequest EXCEPT !.response = TRUE]
  /\ UNCHANGED <<settings, serverVars, req, fallbackCalls, socket, proxySocket>>

\* proxyRes.on('data', ...) (line 150)
UpstreamData(chunk) ==
  /\ phase = "responding"
  /\ Len(res.body) < MaxChunks
  /\ res' = [res EXCEPT !.body = Append(@, chunk)]
  /\ UNCHANGED <<settings, serverVars, req, proxyRequest, fallbackCalls, thrown, phase, socket,
                 proxySocket>>

\* proxyRes.on('end', ...) (line 151)
UpstreamEnd ==
  /\ phase = "responding"
  /\ res' = [res EXCEPT !.ended = @ + 1]
  /\ phase' = "returned"
  /\ UNCHANGED <<settings, serverVars, req, proxyRequest, fallbackCalls, thrown, socket,
                 proxySocket>>

\* res.writeHead(code); res.end() on a response that takes a status line whenever
\* it is given one
WriteHeadEndRewrite(code) ==
  /\ res' = [res EXCEPT !.writeHead = Append(@, Status(code, "")), !.ended = @ + 1]
  /\ thrown' = FALSE

\* res.writeHead(code); res.end(): writeHead throws when the headers were sent
WriteHeadEnd(code) ==
  IF res.writeHead # <<>>
  THEN res' = res /\ thrown' = TRUE
  ELSE /\ res' = [res EXCEPT !.writeHead = <<Status(code, "")>>, !.ended = @ + 1]
       /\ thrown' = FALSE

\* handleError (lines 467-484)
handleError(code) ==
  /\ events' = [events EXCEPT !.proxyerror = @ \cup {code}]
  /\ IF code \in {"ECONNREFUSED", "ECONNRESET"} THEN WriteHeadEnd(502)
     ELSE IF res.writeHead = <<>> THEN WriteHeadEnd(500)
     ELSE res' = res /\ thrown' = FALSE

\* the 'error' listener of the upstream request (line 139); a connection that was
\* refused has produced no response
UpstreamError(code) ==
  /\ phase \in {"forwarding", "responding"}
  /\ code = "ECONNREFUSED" => phase = "forwarding"
  /\ handleError(code)
  /\ proxyRequest' = [proxyRequest EXCEPT !.error = code]
  /\ phase' = "failed"
  /\ UNCHANGED <<settings, proxies, certs, servers, autoReload, timers, disk, loads, starts,
                 sni, req, fallbackCalls, socket, proxySocket>>

----------------------------------------------------------------------------
(* The upgrade tunnel: the listeners onUpgrade attaches (lines 175-191) *)

\* bytes on a socket
Bytes(data) == [kind |-> "bytes", data |-> data, headers |-> EmptyMap]

\* createWebSocketResponseHeaders (lines 196-218): the status line of the
\* handshake, then a line for every header of the upstream's answer
createWebSocketResponseHeaders(headers) ==
  [kind |-> "head", data |-> "HTTP/1.1 101 Switching Protocols", headers |-> headers]

\* an 'upgrade' listener that hands proxyHead to the client before it writes the
\* head of the answer
UpstreamUpgradeHeadLast(proxyRes, proxyHead) ==
  /\ phase = "upgrading"
  /\ proxyRequest.error = "" /\ socket.error = ""
  /\ proxySocket' = [NewProxySocket EXCEPT !.open = TRUE, !.onError = TRUE, !.piped = TRUE]
  /\ socket' = [socket EXCEPT
                  !.onError = TRUE,
                  !.written = (@ \o proxyHead)
                                \o <<createWebSocketResponseHeaders(proxyRes.headers)>>,
                  !.piped = TRUE]
  /\ proxyRequest' = [proxyRequest EXCEPT !.response = TRUE]
  /\ phase' = "tunnel"
  /\ UNCHANGED <<settings, serverVars, req, res, fallbackCalls, thrown>>

\* the 'upgrade' listener of the upstream request (lines 176-191): the error
\* listeners, proxyHead put back on the upstream socket, the head of the answer
\* written to the client, the two sockets piped into each other
UpstreamUpgrade(proxyRes, proxyHead) ==
  /\ phase = "upgrading"
  /\ proxyRequest.error = "" /\ socket.error = ""
  /\ proxySocket' = [NewProxySocket EXCEPT !.open = TRUE, !.onError = TRUE,
                                            !.readable = proxyHead, !.piped = TRUE]
  /\ socket' = [socket EXCEPT
                  !.onError = TRUE,
                  !.written = Append(@, createWebSocketResponseHeaders(proxyRes.headers)),
                  !.piped = TRUE]
  /\ proxyRequest' = [proxyRequest EXCEPT !.response = TRUE]
  /\ phase' = "tunnel"
  /\ UNCHANGED <<settings, serverVars, req, res, fallbackCalls, thrown>>

\* bytes arrive on the client socket (side "client") or on the upstream socket
SocketData(side, chunk) ==
  /\ phase \in {"upgrading", "tunnel"}
  /\ IF side = "client"
     THEN /\ socket.error = ""
          /\ Len(socket.readable) + Len(proxySocket.written) < MaxChunks
          /\ socket' = [socket EXCEPT !.readable = Append(@, chunk)]
          /\ proxySocket' = proxySocket
     ELSE /\ proxySocket.open /\ proxySocket.error = ""
          /\ Len(proxySocket.readable) + Len(socket.written) < MaxChunks + 1
          /\ proxySocket' = [proxySocket EXCEPT !.readable = Append(@, chunk)]
          /\ socket' = socket
  /\ UNCHANGED <<settings, serverVars, req, res, proxyRequest, fallbackCalls, thrown, phase>>

\* proxySocket.pipe(socket).pipe(proxySocket) (line 190): a socket that is piped
\* hands the bytes it has received to the other one, in their order
Pipe(side) ==
  /\ IF side = "client"
     THEN /\ socket.piped /\ socket.readable # <<>> /\ ~proxySocket.ended
          /\ proxySocket' = [proxySocket EXCEPT !.written = Append(@, Head(socket.readable))]
          /\ socket' = [socket EXCEPT !.readable = Tail(@)]
     ELSE /\ proxySocket.piped /\ proxySocket.readable # <<>>
          /\ socket' = [socket EXCEPT !.written = Append(@, Head(proxySocket.readable))]
          /\ proxySocket' = [proxySocket EXCEPT !.readable = Tail(@)]
  /\ UNCHANGED <<settings, serverVars, req, res, proxyRequest, fallbackCalls, thrown, phase>>

\* an error on the upstream request (listener of line 175), on the upstream
\* socket (line 177) or on the client socket (lines 179-182). The listener of the
\* client socket is attached by the 'upgrade' listener: an error of the client
\* socket before that finds no listener, and an 'error' event without listener
\* is raised as an exception unless the socket has a listener of another owner
TunnelError(source, code) ==
  /\ phase \in {"upgrading", "tunnel"}
  /\ CASE source = "proxyReq" ->
            /\ phase = "upgrading" /\ proxyRequest.error = ""
            /\ proxyRequest' = [proxyRequest EXCEPT !.error = code]
            /\ events' = [events EXCEPT !.proxyerror = @ \cup {code}]
            /\ UNCHANGED <<socket, proxySocket, thrown>>
       [] source = "proxySocket" ->
            /\ proxySocket.open /\ proxySocket.error = ""
            /\ proxySocket' = [proxySocket EXCEPT !.error = code]
            /\ events' = [events EXCEPT !.proxyerror = @ \cup {code}]
            /\ UNCHANGED <<socket, proxyRequest, thrown>>
       [] source = "socket" ->
            /\ socket.error = ""
            /\ socket' = [socket EXCEPT !.error = code]
            /\ IF socket.onError
               THEN /\ events' = [events EXCEPT !.proxyerror = @ \cup {code}]
                    /\ proxySocket' = [proxySocket EXCEPT !.ended = TRUE]
                    /\ thrown' = thrown
               ELSE /\ events' = events
                    /\ proxySocket' = proxySocket
                    /\ thrown' \in BOOLEAN
            /\ UNCHANGED proxyRequest
  /\ UNCHANGED <<settings, proxies, certs, servers, autoReload, timers, disk, loads, starts,
                 sni, req, res, fallbackCalls, phase>>

----------------------------------------------------------------------------
(* Certificates: loadCertificates, findRootDomain, SNICallback *)

MaxLoads == 3
MaxStarts == 2

\* what the SNICallback of the last step saw and did, if the last step was a
\* handshake; reloading and before tell whether
\* loadCertificates was between its first and its last assignment, and which map
\* this.certs was when it began
NoSni == [called |-> FALSE, name |-> <<>>, certs |-> EmptyMap, found |-> FALSE,
          context |-> [kind |-> "null", folder |-> <<>>], error |-> FALSE, emitted |-> 0,
          reloading |-> FALSE, before |-> EmptyMap]

\* createSecureContext on the files of a folder
SecureContext(folder) == [kind |-> "SecureContext", folder |-> folder]
\* null, undefined
NoContext == [kind |-> "null", folder |-> <<>>]

\* the properties every plain object inherits from Object.prototype
ObjectPrototypeKeys ==
  {<<"constructor">>, <<"toString">>, <<"valueOf">>, <<"hasOwnProperty">>}

\* certs[rootDomain] on the plain object this.certs = {}
JsGet(map, key) ==
  IF key \in DOMAIN map THEN map[key]
  ELSE IF key \in ObjectPrototypeKeys THEN [kind |-> "Object.prototype", folder |-> key]
  ELSE NoContext

\* the loop of findRootDomain (lines 433-441)
RECURSIVE RootDomainOf(_, _)
FoundOrShift(map, parts, got) ==
  IF got.kind # "null" THEN got ELSE RootDomainOf(map, Tail(parts))

RootDomainOf(map, parts) ==
  IF parts = <<>> THEN NoContext
  ELSE FoundOrShift(map, parts, JsGet(map, Join(parts, ".")))

findRootDomain(map, domain) == RootDomainOf(map, Split(Split(domain, "/")[1], "."))

\* a call of loadCertificates that has not returned: where it is (awaiting readdir,
\* awaiting loadCertificate of Head(folders), done, failed), whether its local certs
\* is still this.certs, and this.certs as it was when the reload began
LoadTask(pc, folders, attached, before) ==
  [pc |-> pc, folders |-> folders, attached |-> attached, before |-> before]

InProgress(t) == t.attached /\ t.pc \in {"readdir", "loading"}

\* this.certs = {} makes the local certs of every earlier call another object
Detached(tasks) ==
  [i \in DOMAIN tasks |-> LoadTask(tasks[i].pc, tasks[i].folders, FALSE, EmptyMap)]

\* the complete map that was in place before the reload in progress, if any
MapBefore ==
  IF \E i \in DOMAIN loads : InProgress(loads[i])
  THEN loads[CHOOSE i \in DOMAIN loads : InProgress(loads[i])].before
  ELSE certs

\* loadCertificates up to its first await (lines 351-366)
loadCertificates ==
  /\ Len(loads) < MaxLoads
  /\ certs' = EmptyMap
  /\ loads' = Append(Detached(loads),
                     IF settings.httpsPort = 0
                     THEN LoadTask("done", <<>>, TRUE, EmptyMap)
                     ELSE LoadTask("readdir", <<>>, TRUE, MapBefore))

\* a promise is settled and its continuation has not run yet, or the continuation
\* of start is between two of its statements: no event is handled before it has
\* run to its end
MicrotaskPending ==
  \E i \in DOMAIN starts :
    \/ starts[i].pc = "awaiting" /\ loads[starts[i].load].pc \in {"done", "failed"}
    \/ starts[i].pc \in {"createServers", "add"}

\* the promise was settled by the completion of a file operation: its continuation
\* runs before any other code does. (Without an HTTPS port loadCertificates returns
\* before its first await and the caller of start runs on before start resumes.)
SettledByIo ==
  /\ MicrotaskPending
  /\ settings.httpsPort # 0 \/ \E i \in DOMAIN starts : starts[i].pc \in {"createServers", "add"}

\* reload (lines 117-120)
reload ==
  /\ ~SettledByIo
  /\ loadCertificates
  /\ sni' = NoSni
  /\ UNCHANGED <<settings, proxies, servers, autoReload, timers, disk, starts, events,
                 requestVars>>

\* the interval callback of line 96
TimerFire(t) ==
  /\ t \in timers
  /\ ~MicrotaskPending
  /\ loadCertificates
  /\ sni' = NoSni
  /\ UNCHANGED <<settings, proxies, servers, autoReload, timers, disk, starts, events,
                 requestVars>>

\* entry.isDirectory() names of the listing (line 368)
RECURSIVE Folders(_)
Folders(listing) ==
  IF listing = <<>> THEN <<>>
  ELSE (IF Head(listing).isDirectory THEN <<Head(listing).name>> ELSE <<>>)
       \o Folders(Tail(listing))

Listed(t, folders) ==
  LoadTask(IF folders = <<>> THEN "done" ELSE "loading", folders, t.attached, t.before)

\* readdir resolves (lines 362-368); the loop starts on the first folder
ReaddirDone(i) ==
  /\ i \in DOMAIN loads
  /\ loads[i].pc = "readdir"
  /\ ~MicrotaskPending
  /\ loads' = [loads EXCEPT ![i] = Listed(loads[i], Folders(disk.listing))]
  /\ sni' = NoSni
  /\ UNCHANGED <<settings, proxies, certs, servers, autoReload, timers, disk, starts, events,
                 requestVars>>

Loaded(t, rest) ==
  IF rest = <<>> THEN LoadTask("done", <<>>, t.attached, EmptyMap)
  ELSE LoadTask("loading", rest, t.attached, t.before)

\* line 371 assigning to this.certs, whichever object that is by then
LoadCertificateShared(i) ==
  /\ i \in DOMAIN loads
  /\ loads[i].pc = "loading"
  /\ ~MicrotaskPending
  /\ IF Head(loads[i].folders) \in disk.loadable
     THEN /\ certs' = (Head(loads[i].folders) :> SecureContext(Head(loads[i].folders)))
                        @@ certs
          /\ loads' = [loads EXCEPT ![i] = Loaded(loads[i], Tail(loads[i].folders))]
     ELSE /\ certs' = certs
          /\ loads' = [loads EXCEPT ![i] =
                         LoadTask("failed", <<>>, loads[i].attached, EmptyMap)]
  /\ sni' = NoSni
  /\ UNCHANGED <<settings, proxies, servers, autoReload, timers, disk, starts, events,
                 requestVars>>

\* loadCertificate of the next folder settles (lines 337-348, 371): the context is
\* assigned to the local certs, or the rejection leaves loadCertificates
LoadCertificate(i) ==
  /\ i \in DOMAIN loads
  /\ loads[i].pc = "loading"
  /\ ~MicrotaskPending
  /\ IF Head(loads[i].folders) \in disk.loadable
     THEN /\ certs' = IF loads[i].attached
                      THEN (Head(loads[i].folders) :> SecureContext(Head(loads[i].folders)))
                           @@ certs
                      ELSE certs
          /\ loads' = [loads EXCEPT ![i] = Loaded(loads[i], Tail(loads[i].folders))]
     ELSE /\ certs' = certs
          /\ loads' = [loads EXCEPT ![i] =
                         LoadTask("failed", <<>>, loads[i].attached, EmptyMap)]
  /\ sni' = NoSni
  /\ UNCHANGED <<settings, proxies, servers, autoReload, timers, disk, starts, events,
                 requestVars>>

Server(id, isSsl) == [id |-> id, isSsl |-> isSsl]

\* the servers of one call of createServers (lines 86-89)
Created(id) ==
  {Server(id, isSsl) : isSsl \in {b \in BOOLEAN :
     IF b THEN settings.httpsPort # 0 ELSE settings.httpPort # 0}}

\* createServers (lines 82-90): listen succeeds on a port no server is listening on
createServers(s, created) ==
  [list |-> created,
   listening |-> s.listening \cup
                 {n \in created : \A o \in s.listening : o.isSsl # n.isSsl}]

\* start that opens its listeners before it awaits the certificate load
startListenFirst ==
  /\ ~SettledByIo
  /\ Len(starts) < MaxStarts
  /\ loadCertificates
  /\ starts' = Append(starts, [pc |-> "awaiting", load |-> Len(loads) + 1, reset |-> FALSE])
  /\ servers' = createServers(servers, Created(Len(starts) + 1))
  /\ sni' = NoSni
  /\ UNCHANGED <<settings, proxies, autoReload, timers, disk, events, requestVars>>

\* start up to its await (lines 92-93); the record of a call tells where it is,
\* which load it awaits and whether reset was called after it
start ==
  /\ ~SettledByIo
  /\ Len(starts) < MaxStarts
  /\ loadCertificates
  /\ starts' = Append(starts, [pc |-> "awaiting", load |-> Len(loads) + 1, reset |-> FALSE])
  /\ sni' = NoSni
  /\ UNCHANGED <<settings, proxies, servers, autoReload, timers, disk, events,
                 requestVars>>

\* start after its await, up to createServers (lines 95-97), or its rejection with
\* that of reload. The statements of lines 95-105 run one after the other with
\* nothing in between: while a call is at createServers or at add no other action
\* is enabled
StartResume(i) ==
  /\ i \in DOMAIN starts
  /\ starts[i].pc = "awaiting"
  /\ loads[starts[i].load].pc \in {"done", "failed"}
  /\ \A j \in DOMAIN starts : \* continuations run in the order they were queued
       /\ starts[j].pc \notin {"createServers", "add"}
       /\ j < i => ~(starts[j].pc = "awaiting" /\ loads[starts[j].load].pc \in {"done", "failed"})
  /\ IF loads[starts[i].load].pc = "failed"
     THEN /\ starts' = [starts EXCEPT ![i].pc = "rejected"]
          /\ UNCHANGED <<autoReload, timers>>
     ELSE /\ starts' = [starts EXCEPT ![i].pc = "createServers"]
          /\ autoReload' = IF settings.autoReload # 0 THEN i ELSE autoReload
          /\ timers' = IF settings.autoReload # 0 THEN timers \cup {i} ELSE timers
  /\ sni' = NoSni
  /\ UNCHANGED <<settings, proxies, certs, servers, disk, loads, events, requestVars>>

\* line 99 of start
StartCreateServers(i) ==
  /\ i \in DOMAIN starts
  /\ starts[i].pc = "createServers"
  /\ servers' = createServers(servers, Created(i))
  /\ starts' = [starts EXCEPT ![i].pc = "add"]
  /\ sni' = NoSni
  /\ UNCHANGED <<settings, proxies, certs, autoReload, timers, disk, loads, events,
                 requestVars>>

\* lines 101-105 of a start that makes the table out of settings.proxies
StartAddAssign(i) ==
  /\ i \in DOMAIN starts
  /\ starts[i].pc = "add"
  /\ proxies' = settings.proxies
  /\ starts' = [starts EXCEPT ![i].pc = "done"]
  /\ sni' = NoSni
  /\ UNCHANGED <<settings, certs, servers, autoReload, timers, disk, loads, events,
                 requestVars>>

\* lines 101-105 of start
StartAdd(i) ==
  /\ i \in DOMAIN starts
  /\ starts[i].pc = "add"
  /\ proxies' = proxies \o settings.proxies
  /\ starts' = [starts EXCEPT ![i].pc = "done"]
  /\ sni' = NoSni
  /\ UNCHANGED <<settings, certs, servers, autoReload, timers, disk, loads, events,
                 requestVars>>

\* reset (lines 108-115)
reset ==
  /\ ~SettledByIo
  /\ servers' = [servers EXCEPT !.listening = @ \ servers.list]
  /\ proxies' = <<>>
  /\ certs' = EmptyMap
  /\ loads' = Detached(loads)
  /\ timers' = timers \ {autoReload}
  /\ starts' = [i \in DOMAIN starts |-> [starts[i] EXCEPT !.reset = TRUE]]
  /\ sni' = NoSni
  /\ UNCHANGED <<settings, autoReload, disk, events, requestVars>>

Handshake(name, got) ==
  [called |-> TRUE, name |-> name, certs |-> certs, found |-> got.kind # "null",
   context |-> got, error |-> got.kind = "null",
   emitted |-> IF got.kind # "null" THEN 1 ELSE 0,
   reloading |-> \E i \in DOMAIN loads : InProgress(loads[i]),
   before |-> MapBefore]

Emitted(got) ==
  IF got.kind # "null" THEN [events EXCEPT !.sni = @ \cup {got}] ELSE events

SniLookup(name, got) ==
  /\ sni' = Handshake(name, got)
  /\ events' = Emitted(got)

\* SNICallback (lines 416-425) on a handshake of a listening HTTPS server
SNICallback(domain) ==
  /\ \E s \in servers.listening : s.isSsl
  /\ ~MicrotaskPending
  /\ SniLookup(domain, findRootDomain(certs, domain))
  /\ UNCHANGED <<settings, proxies, certs, servers, autoReload, timers, disk, loads, starts,
                 requestVars>>

----------------------------------------------------------------------------
(* The server after construction *)

\* the constructor (lines 71-75): the field initialisers, then reset()
Constructed ==
  /\ proxies = <<>>
  /\ certs = EmptyMap
  /\ servers = [list |-> {}, listening |-> {}]
  /\ autoReload = 0
  /\ timers = {}
  /\ loads = <<>>
  /\ starts = <<>>
  /\ events = [sni |-> {}, error |-> {}, proxyerror |-> {}]
  /\ sni = NoSni

Idle ==
  /\ req = NoReq
  /\ res = NewResponse
  /\ proxyRequest = NoRequest
  /\ fallbackCalls = 0
  /\ thrown = FALSE
  /\ phase = "idle"
  /\ socket = NewSocket
  /\ proxySocket = NewProxySocket

EmptyDisk == [listing |-> <<>>, loadable |-> {}]

Settings(fallback, httpsPort, autoReloadMs, initial) ==
  [fallback |-> fallback, httpPort |-> 80, httpsPort |-> httpsPort,
   autoReload |-> autoReloadMs, proxies |-> initial]

----------------------------------------------------------------------------
(* Spec: the policy pipeline, on one entry with every combination of policies *)

ExampleCom == <<"example", ".", "com">>
OtherOrg == <<"other", ".", "org">>
UpstreamLocal == Target("http:", <<"upstream", ".", "local">>, <<"9000">>, <<"/">>)

PolicyEntries ==
  {ProxyEntry([domain |-> ExampleCom, target |-> t, authorization |-> a,
               redirectToDomain |-> d, redirectToUrl |-> u, redirectToHttps |-> h,
               cors |-> c, preserveHost |-> ph]) :
     t \in {NoTarget, UpstreamLocal},
     a \in {<<>>, <<"c1">>},
     d \in {<<>>, <<"redirect", ".", "com">>},
     u \in {<<>>, <<"http:", "/", "/", "another", ".", "example", ".", "com", "/", "foo">>},
     h \in BOOLEAN, c \in BOOLEAN, ph \in BOOLEAN}

PolicyRequests ==
  {Request(m, <<"/", "test">>, h) :
     m \in {"GET", "OPTIONS"},
     h \in HeaderMaps([host |-> {ExampleCom, OtherOrg, <<"exa", " ", "mple">>},
                       authorization |-> {<<"Basic", " ", "c1">>, <<"Basic", " ", "c2">>,
                                          <<"c1">>},
                       origin |-> {<<"http:", "/", "/", "example", ".", "com", "/">>,
                                   <<"null">>}])}

Init ==
  /\ settings \in {Settings(f, 443, 0, <<>>) : f \in BOOLEAN}
  /\ Constructed
  /\ disk = EmptyDisk
  /\ Idle

\* the pipeline reads the matched entry alone: the table holds one entry here
\* (SpecLookup is the specification of tables with several entries)
Next ==
  \/ \E e \in PolicyEntries : proxies = <<>> /\ phase = "idle" /\ add(e)
  \/ \E r \in PolicyRequests, isSsl \in BOOLEAN : onRequest(r, isSsl)
  \/ NextRequest

Spec == Init /\ [][Next]_vars

----------------------------------------------------------------------------
(* Claims on the policy pipeline (Spec) *)

\* the handler ran on the request in req
WasHandled == phase # "idle"
\* the entry matchProxy found for it
Entry == req.match.proxyEntry
Location == IF "location" \in DOMAIN res.headers THEN res.headers["location"] ELSE <<>>
Challenge == <<"Basic realm=\"Y u no password\"">>

\* the Authorization header without its first Basic token and without the blanks
\* around what is left
CredentialOf(h) ==
  LET at == {i \in 1..Len(h) : h[i] = "Basic"}
      cut == IF at = {} THEN h
             ELSE [i \in 1..(Len(h) - 1) |->
                     IF i < (CHOOSE k \in at : \A j \in at : k <= j) THEN h[i] ELSE h[i + 1]]
      inner == {i \in 1..Len(cut) : cut[i] # " "}
  IN IF inner = {} THEN <<>>
     ELSE SubSeq(cut, CHOOSE i \in inner : \A j \in inner : i <= j,
                      CHOOSE i \in inner : \A j \in inner : j <= i)

Credential ==
  CredentialOf(IF "authorization" \in DOMAIN req.headers THEN req.headers["authorization"]
               ELSE <<>>)

\* the rules of the pipeline that apply to the handled request, as section 4.2 has them
AuthorizationFails == Entry.authorization # <<>> /\ Credential # Entry.authorization
PlaintextRedirect == Entry.redirectToHttps /\ ~req.isSsl
PreflightRequest ==
  /\ req.method = "OPTIONS"
  /\ Entry.cors
  /\ "origin" \in DOMAIN req.headers
  /\ req.headers["origin"] # <<>>

\* the earliest rule of the fixed order that applies
EarliestRule ==
  IF AuthorizationFails THEN "authorization"
  ELSE IF Entry.redirectToDomain # <<>> THEN "redirectToDomain"
  ELSE IF Entry.redirectToUrl # <<>> THEN "redirectToUrl"
  ELSE IF PlaintextRedirect THEN "redirectToHttps"
  ELSE IF PreflightRequest THEN "preflight"
  ELSE "forward"

\* the response each rule produces
RuleProduced(rule) ==
  CASE rule = "authorization" -> res.writeHead = <<Status(401, "")>>
    [] rule = "redirectToDomain" ->
         /\ res.writeHead = <<Status(302, "Moved somewhere else")>>
         /\ Location = <<"https:", "/", "/">> \o Entry.redirectToDomain \o req.url
    [] rule = "redirectToUrl" ->
         /\ res.writeHead = <<Status(302, "Moved somewhere else")>>
         /\ Location = Entry.redirectToUrl
    [] rule = "redirectToHttps" -> res.writeHead = <<Status(301, "HTTPS is better")>>
    [] rule = "preflight" -> res.writeHead = <<Status(204, "")>>
    [] OTHER -> FALSE

\* the requests on which the stage of a rule throws instead of answering: a preflight
\* whose Origin is not a URL, a forward on an entry without target
RuleThrows(rule) ==
  CASE rule = "preflight" -> req.headers["origin"] = <<"null">>
    [] rule = "forward" -> ~Entry.target.ok
    [] OTHER -> FALSE

\* C1: on a matched entry the earliest applicable rule of the order 401 ->
\* redirectToDomain -> redirectToUrl -> redirectToHttps -> preflight -> forward is the
\* only one that produces the response: the status written is that rule's and no
\* other, an upstream request exists exactly when forward is the rule and it does
\* not throw, and the handler throws only in that rule's own stage
C1_PolicyOrder ==
  (WasHandled /\ req.match.found) =>
    /\ thrown <=> RuleThrows(EarliestRule)
    /\ res.writeHead # <<>> => RuleProduced(EarliestRule)
    /\ res.writeHead = <<>> => (EarliestRule = "forward" \/ thrown)
    /\ proxyRequest.created <=> (EarliestRule = "forward" /\ ~thrown)

\* C1 witness: authorization passes and every later rule applies; redirectToDomain answers
C1_Witness ==
  /\ phase = "returned" /\ req.match.found
  /\ Entry.authorization # <<>> /\ ~AuthorizationFails
  /\ Entry.redirectToDomain # <<>> /\ Entry.redirectToUrl # <<>>
  /\ PlaintextRedirect /\ PreflightRequest
  /\ Location = <<"https:", "/", "/">> \o Entry.redirectToDomain \o req.url
  /\ res.writeHead = <<Status(302, "Moved somewhere else")>>

NotFoundOnce ==
  /\ res.writeHead = <<Status(404, "Not found")>>
  /\ res.body = <<>> /\ res.ended = 1
  /\ fallbackCalls = 0

FallbackOnce == fallbackCalls = 1 /\ res.writeHead = <<>> /\ res.ended = 0

\* C2: a handled request whose host matches no entry gets 404 "Not found" with an
\* empty body, ended once, when no fallback is configured, and otherwise exactly one
\* call of the fallback and no status written by the server
C2_NoMatch ==
  (WasHandled /\ ~req.match.found) =>
    IF settings.fallback THEN FallbackOnce ELSE NotFoundOnce

Is401 ==
  /\ res.writeHead = <<Status(401, "")>>
  /\ "www-authenticate" \in DOMAIN res.headers
  /\ res.headers["www-authenticate"] = Challenge

\* C4: on a matched entry with authorization set the response is 401 with the
\* WWW-Authenticate challenge iff the credential of the Authorization header (Basic
\* token and surrounding blanks removed, empty when absent) differs from
\* entry.authorization; otherwise no challenge is set and a later stage decides
C4_Authorization ==
  (WasHandled /\ req.match.found /\ Entry.authorization # <<>>) =>
    /\ Is401 <=> Credential # Entry.authorization
    /\ Credential = Entry.authorization =>
         /\ "www-authenticate" \notin DOMAIN res.headers
         /\ \A i \in 1..Len(res.writeHead) : res.writeHead[i].code \in {204, 301, 302}
         /\ (res.writeHead = <<>> => (proxyRequest.created \/ thrown))

\* C4 witness: "Basic c1" passes the entry that expects c1 and is forwarded
C4_Witness ==
  /\ phase = "forwarding" /\ req.match.found
  /\ Entry.authorization = <<"c1">>
  /\ "authorization" \in DOMAIN req.headers
  /\ req.headers["authorization"] = <<"Basic", " ", "c1">>
  /\ proxyRequest.created /\ res.writeHead = <<>>

SchemeName == IF req.isSsl THEN <<"https">> ELSE <<"http">>

\* C5: every forwarded request carries X-Forwarded-For = incoming host,
\* X-Forwarded-Proto = https iff TLS, and Forwarded = host={host};proto={scheme},
\* whatever preserveHost is
C5_ForwardedHeaders ==
  (phase = "forwarding" /\ proxyRequest.created /\ "host" \in DOMAIN req.headers) =>
    /\ {"x-forwarded-for", "x-forwarded-proto", "forwarded"} \subseteq DOMAIN proxyRequest.headers
    /\ proxyRequest.headers["x-forwarded-for"] = req.headers["host"]
    /\ proxyRequest.headers["x-forwarded-proto"] = SchemeName
    /\ proxyRequest.headers["forwarded"] =
         <<"host=">> \o req.headers["host"] \o <<";proto=">> \o SchemeName

----------------------------------------------------------------------------
(* SpecCerts: start, reload, reset, the reload timer and TLS handshakes, on a *)
(* certificates folder that does not change                                   *)

DomainB == <<"b">>
DomainAB == <<"a", ".", "b">>
Dir(name) == [name |-> name, isDirectory |-> TRUE]
File(name) == [name |-> name, isDirectory |-> FALSE]

\* certificates folders: what readdir lists, and the listed folders whose files load
Listings ==
  {<<>>, <<Dir(DomainAB), Dir(DomainB)>>, <<Dir(DomainB), Dir(DomainAB)>>,
   <<File(<<"readme">>), Dir(DomainB)>>}

Disks ==
  {[listing |-> l, loadable |-> ok] :
     l \in Listings, ok \in SUBSET {DomainAB, DomainB}} \cap
  {d \in [listing : Listings, loadable : SUBSET {DomainAB, DomainB}] :
     \A f \in d.loadable : \E i \in DOMAIN d.listing : d.listing[i] = Dir(f)}

ServerNames == {DomainB, DomainAB, <<"c", ".", "b">>}

InitCerts ==
  /\ settings \in {Settings(FALSE, ports[1], ports[2], <<ProxyEntry([domain |-> ExampleCom])>>) :
                     ports \in {<<0, 0>>, <<443, 0>>, <<443, 60000>>}}
  /\ Constructed
  /\ disk \in Disks
  /\ Idle

\* the handshake ends
NextHandshake ==
  /\ sni.called
  /\ sni' = NoSni
  /\ UNCHANGED <<settings, proxies, certs, servers, autoReload, timers, disk, loads, starts,
                 events, requestVars>>

\* the callback of a handshake returns before anything else runs
NextCerts ==
  \/ ~sni.called /\ start
  \/ ~sni.called /\ reload
  \/ ~sni.called /\ reset
  \/ \E t \in timers : ~sni.called /\ TimerFire(t)
  \/ \E i \in DOMAIN loads : ~sni.called /\ ReaddirDone(i)
  \/ \E i \in DOMAIN loads : ~sni.called /\ LoadCertificate(i)
  \/ \E i \in DOMAIN starts : ~sni.called /\ StartResume(i)
  \/ \E i \in DOMAIN starts : ~sni.called /\ StartCreateServers(i)
  \/ \E i \in DOMAIN starts : ~sni.called /\ StartAdd(i)
  \/ \E name \in ServerNames : ~sni.called /\ SNICallback(name)
  \/ NextHandshake

SpecCerts == InitCerts /\ [][NextCerts]_vars

----------------------------------------------------------------------------
(* Claims on reloads (SpecCerts) *)

\* the folders of a listing up to the first one that does not load
RECURSIVE LoadedBeforeFailure(_)
LoadedBeforeFailure(folders) ==
  IF folders = <<>> \/ Head(folders) \notin disk.loadable THEN {}
  ELSE {Head(folders)} \cup LoadedBeforeFailure(Tail(folders))

\* the map a reload of this certificates folder leaves behind
MapAfter == [f \in LoadedBeforeFailure(Folders(disk.listing)) |-> SecureContext(f)]

\* C6: a lookup made while a reload is in progress sees the complete map from
\* before the reload or the complete map after it, and a domain that has its
\* certificate before and after the reload is found
C6_ReloadAtomic ==
  (sni.called /\ sni.reloading) =>
    /\ sni.certs \in {sni.before, MapAfter}
    /\ sni.name \in (DOMAIN sni.before \cap DOMAIN MapAfter) => sni.found

ListedFolders == {Folders(disk.listing)[i] : i \in DOMAIN Folders(disk.listing)}

\* C9: when a reload that listed the folder has ended and this.certs is still its
\* map, the reload completed, every listed folder whose files load is in the map,
\* and an error event was emitted if some listed folder does not load
C9_FailedLoadSkipped ==
  \A i \in DOMAIN loads :
    (settings.httpsPort # 0 /\ loads[i].attached /\ loads[i].pc \in {"done", "failed"}) =>
      /\ loads[i].pc = "done"
      /\ ListedFolders \cap disk.loadable \subseteq DOMAIN certs
      /\ (ListedFolders \ disk.loadable # {}) => events.error # {}

----------------------------------------------------------------------------
(* SpecSni: TLS handshakes on a started server, for every loaded map over    *)
(* three folders and every server name of at most MaxSniLen tokens           *)

MaxSniLen == 4

DomainA == <<"a">>
SniTokens == {"a", "b", ".", "constructor"}
SniNames == StrUpTo(SniTokens, MaxSniLen)

\* the listing of a certificates folder that holds the folders of K
ListingOf(K) ==
  SelectSeq(<<Dir(DomainB), Dir(DomainAB), Dir(DomainA)>>, LAMBDA e : e.name \in K)

\* the server after start() has resumed on a certificates folder whose folders K
\* all load: one reload done, both servers listening
Started(K) ==
  /\ settings = Settings(FALSE, 443, 0, <<>>)
  /\ proxies = <<>>
  /\ certs = [f \in K |-> SecureContext(f)]
  /\ servers = [list |-> {Server(1, FALSE), Server(1, TRUE)},
                listening |-> {Server(1, FALSE), Server(1, TRUE)}]
  /\ autoReload = 0
  /\ timers = {}
  /\ disk = [listing |-> ListingOf(K), loadable |-> K]
  /\ loads = <<LoadTask("done", <<>>, TRUE, EmptyMap)>>
  /\ starts = <<[pc |-> "done", load |-> 1, reset |-> FALSE]>>
  /\ events = [sni |-> {}, error |-> {}, proxyerror |-> {}]
  /\ sni = NoSni

InitSni ==
  /\ \E K \in SUBSET {DomainB, DomainAB, DomainA} : Started(K)
  /\ Idle

NextSni ==
  \/ \E name \in SniNames : ~sni.called /\ SNICallback(name)
  \/ NextHandshake

SpecSni == InitSni /\ [][NextSni]_vars

----------------------------------------------------------------------------
(* Claims on the certificate lookup (SpecSni) *)

\* where the dot-label suffixes of a name start: at its first token and after each dot
SuffixStarts(name) ==
  {k \in 1..(Len(name) + 1) : k = 1 \/ name[k - 1] = "."}

SuffixAt(name, k) == SubSeq(name, k, Len(name))

\* the starts of the suffixes of the server name that are keys of the map it saw
SuffixesInMap ==
  {k \in SuffixStarts(sni.name) : SuffixAt(sni.name, k) \in DOMAIN sni.certs}

\* C7: findRootDomain returns the context stored under the longest dot-label
\* suffix of the name that is a key of the map, and no match when none is
C7_LongestSuffix ==
  sni.called =>
    IF SuffixesInMap = {} THEN sni.context = NoContext
    ELSE sni.context =
           sni.certs[SuffixAt(sni.name,
                              CHOOSE k \in SuffixesInMap : \A j \in SuffixesInMap : k <= j)]

\* C8: the callback supplies a certificate context and emits one sni event exactly
\* when a loaded certificate matches the server name; otherwise it reports an
\* error, supplies no context and emits nothing
C8_SniCallback ==
  sni.called =>
    IF SuffixesInMap # {}
    THEN sni.context.kind = "SecureContext" /\ sni.emitted = 1 /\ ~sni.error
    ELSE sni.context = NoContext /\ sni.emitted = 0 /\ sni.error

----------------------------------------------------------------------------
(* SpecLookup: findProxyEntry on tables of at most MaxEntries entries *)

MaxEntries == 2

LookupEntries ==
  {ProxyEntry([domain |-> d, path |-> p, target |-> UpstreamLocal]) :
     d \in {DomainB, DomainAB, <<"*", ".", "b">>, <<"*", ".", "a", ".", "b">>},
     p \in {<<>>, <<"/", "x">>, <<"/", "x", "/", "y">>}}

\* requests with a Host header, without and with an X-Forwarded-For header (the
\* address of a client, the name of a host)
LookupRequests ==
  {Request("GET", u, h @@ x) :
     u \in {<<"/">>, <<"/", "x">>, <<"/", "x", "/", "y">>, <<"/", "x", "y">>, <<"/", "y">>},
     h \in {[host |-> d] :
             d \in {DomainB, DomainAB, <<"c", ".", "b">>, <<"c", ".", "a", ".", "b">>, <<"c">>}},
     x \in {EmptyMap} \cup
           {"x-forwarded-for" :> f : f \in {<<"203", ".", "0", ".", "113", ".", "7">>, DomainAB}}}

InitLookup ==
  /\ settings = Settings(FALSE, 443, 0, <<>>)
  /\ Constructed
  /\ disk = EmptyDisk
  /\ Idle

NextLookup ==
  \/ \E e \in LookupEntries : Len(proxies) < MaxEntries /\ phase = "idle" /\ add(e)
  \/ \E r \in LookupRequests : onRequest(r, FALSE)
  \/ NextRequest

SpecLookup == InitLookup /\ [][NextLookup]_vars

----------------------------------------------------------------------------
(* Claims on the entry lookup (SpecLookup) *)

\* the host without its first label: what follows its first dot, "" without a dot
WithoutFirstLabel(host) ==
  IF \E k \in 1..Len(host) : host[k] = "."
  THEN SubSeq(host, (CHOOSE k \in 1..Len(host) :
                       host[k] = "." /\ \A j \in 1..(k - 1) : host[j] # ".") + 1, Len(host))
  ELSE <<>>

\* eligibility as section 4.1 states it
Eligible(domain, host) ==
  \/ domain = host
  \/ /\ Len(domain) >= 2 /\ domain[1] = "*" /\ domain[2] = "."
     /\ SubSeq(domain, 3, Len(domain)) \in {host, WithoutFirstLabel(host)}

RequestHost == req.match.originlUrl.hostname
EligiblePositions == {i \in DOMAIN proxies : Eligible(proxies[i].domain, RequestHost)}

\* C10: the entries that pass the domain filter are exactly the eligible ones (the
\* domain equals the host, or starts with "*." and the rest equals the host or the
\* host without its first label); the entry returned is always one of them, a
\* lone eligible entry is returned, and nothing is returned when none is eligible
C10_DomainFilter ==
  (WasHandled /\ req.match.originlUrl.ok) =>
    /\ ByDomain(proxies, RequestHost) = EligiblePositions
    /\ req.match.found =>
         /\ req.match.index \in EligiblePositions
         /\ req.match.proxyEntry = proxies[req.match.index]
    /\ Cardinality(EligiblePositions) = 1 => req.match.found
    /\ EligiblePositions = {} => ~req.match.found

\* C10 witness: c.b reaches the entry of *.b through its parent domain, past an
\* entry of another domain
C10_Witness ==
  /\ WasHandled /\ req.match.found
  /\ RequestHost = <<"c", ".", "b">>
  /\ Entry.domain = <<"*", ".", "b">>
  /\ req.match.index = 2
  /\ ~Eligible(proxies[1].domain, RequestHost)

\* the path of the request: the URLs of LookupRequests are paths
RequestPath == req.url

\* the entry's path is set and the request path is it or goes on with "/" after it
PathFits(i) ==
  /\ proxies[i].path # <<>>
  /\ \/ RequestPath = proxies[i].path
     \/ /\ Len(RequestPath) > Len(proxies[i].path)
        /\ \A k \in 1..Len(proxies[i].path) : RequestPath[k] = proxies[i].path[k]
        /\ RequestPath[Len(proxies[i].path) + 1] = "/"

Earliest(S) == IF S = {} THEN 0 ELSE CHOOSE i \in S : \A j \in S : i <= j

\* C11: with two or more eligible entries the lookup returns the first one in
\* insertion order whose path fits the request path, else the first one without
\* path, else nothing
C11_PathDisambiguation ==
  (WasHandled /\ req.match.originlUrl.ok /\ Cardinality(EligiblePositions) >= 2) =>
    /\ req.match.index =
         IF \E i \in EligiblePositions : PathFits(i)
         THEN Earliest({i \in EligiblePositions : PathFits(i)})
         ELSE Earliest({i \in EligiblePositions : proxies[i].path = <<>>})
    /\ req.match.found <=> req.match.index # 0
    /\ req.match.found => req.match.proxyEntry = proxies[req.match.index]

\* C11 witness: /x/y goes to the second entry, whose path is /x, past an earlier
\* eligible entry without path
C11_Witness ==
  /\ WasHandled /\ req.match.found
  /\ Len(proxies) = 2
  /\ EligiblePositions = {1, 2}
  /\ proxies[1].path = <<>> /\ proxies[2].path = <<"/", "x">>
  /\ req.url = <<"/", "x", "/", "y">>
  /\ req.match.index = 2

\* C28: when exactly one entry is eligible for the host of the request the lookup
\* returns that entry, whatever the request path and whatever the entry's path
C28_SingleEligible ==
  (WasHandled /\ req.match.originlUrl.ok /\ Cardinality(EligiblePositions) = 1) =>
    /\ req.match.found
    /\ EligiblePositions = {req.match.index}
    /\ req.match.proxyEntry = proxies[req.match.index]

\* C28 witness: the only entry eligible for host b has path /x/y and the request
\* is for /y; another entry, of another domain, is in the table
C28_Witness ==
  /\ WasHandled /\ req.match.found
  /\ Len(proxies) = 2 /\ EligiblePositions = {2}
  /\ RequestHost = DomainB /\ req.url = <<"/", "y">>
  /\ Entry.path = <<"/", "x", "/", "y">>
  /\ ~PathFits(2)

\* C29: the entry selected depends on the Host header and the path alone: every
\* request with the Host header and the path of the handled one selects the entry
\* it selected, or none if it selected none, whatever other headers it carries
C29_HostAndPathOnly ==
  (WasHandled /\ ~thrown) =>
    \A r \in LookupRequests :
      (r.url = req.url /\ r.headers["host"] = req.headers["host"]) =>
        matchProxy(proxies, r).index = req.match.index

\* C12: a step that changes the table appends one entry to it: every entry added
\* before stays, at its position, also when the new entry has the domain of an
\* earlier one
C12_AddAppends ==
  [][proxies' # proxies =>
       /\ Len(proxies') = Len(proxies) + 1
       /\ \A i \in DOMAIN proxies : proxies'[i] = proxies[i]
       /\ proxies'[Len(proxies')] \in LookupEntries]_vars

\* C12 witness: two different entries of one domain, in the table together
C12_Witness ==
  /\ Len(proxies) = 2
  /\ proxies[1].domain = proxies[2].domain
  /\ proxies[1].path = <<"/", "x">> /\ proxies[2].path = <<>>

----------------------------------------------------------------------------
(* SpecUrls: redirects and forwards on one entry, for request URLs in origin *)
(* form (they begin with "/") with and without a host after a second "/"    *)

AnotherUrl == <<"http:", "/", "/", "another", ".", "example", ".", "com", "/", "foo">>

\* 'x-key: v:w | authorization: key' and 'host: evil.com'
ExtraKeys == <<"x-key", ":", " ", "v", ":", "w", " ", "|", " ", "authorization", ":", " ", "key">>
ExtraHost == <<"host", ":", " ", "evil", ".", "com">>

UrlEntries ==
  {ProxyEntry([domain |-> ExampleCom, target |-> t, redirectToDomain |-> d,
               redirectToUrl |-> u, redirectToHttps |-> h, preserveHost |-> ph,
               headers |-> x, path |-> p]) :
     t \in {NoTarget, UpstreamLocal,
            Target("http:", <<"up">>, <<"9000">>, <<"/", "base", "/">>),
            Target("http:", <<"up">>, <<"9000">>, <<"/", "api", "/", "v1", "/">>)},
     d \in {<<>>, <<"redirect", ".", "com">>},
     u \in {<<>>, AnotherUrl},
     h \in BOOLEAN, ph \in BOOLEAN,
     x \in {<<>>, ExtraKeys, ExtraHost},
     p \in {<<>>, <<"/", "api">>}}

UrlRequests ==
  {Request("GET", u, h) :
     u \in {<<"/", "test">>, <<"/", "api">>, <<"/", "api", "/", "foo", "?", "q">>,
            <<"/", "/", "evil", ".", "com", "/", "x">>,
            <<"/", "http:", "/", "/", "evil", ".", "com", "/", "x">>},
     h \in HeaderMaps([host |-> {ExampleCom, ExampleCom \o <<":", "8080">>},
                       authorization |-> {<<"secret">>}])}

NextUrls ==
  \/ \E e \in UrlEntries : proxies = <<>> /\ phase = "idle" /\ add(e)
  \/ \E r \in UrlRequests, isSsl \in BOOLEAN : onRequest(r, isSsl)
  \/ NextRequest

SpecUrls == InitLookup /\ [][NextUrls]_vars

----------------------------------------------------------------------------
(* Claims on redirects and forwards (SpecUrls, Spec) *)

IncomingHost == req.headers["host"]

\* C13: with redirectToHttps and no earlier rule, a plaintext request is answered
\* 301 "HTTPS is better" with Location = https://{incomingHost}{request.url}; a TLS
\* request is not redirected and goes on to the later stages
C13_RedirectToHttps ==
  (/\ WasHandled /\ req.match.found
   /\ Entry.redirectToHttps
   /\ Entry.redirectToDomain = <<>> /\ Entry.redirectToUrl = <<>>) =>
    IF ~req.isSsl
    THEN /\ res.writeHead = <<Status(301, "HTTPS is better")>>
         /\ Location = <<"https:", "/", "/">> \o IncomingHost \o req.url
         /\ ~proxyRequest.created
    ELSE /\ res.writeHead = <<>>
         /\ "location" \notin DOMAIN res.headers
         /\ proxyRequest.created \/ thrown

\* C14: with redirectToDomain set and authorization passing or unset the response
\* is 302 "Moved somewhere else" with Location = https://{redirectToDomain}{request.url}
\* and an empty body, on plaintext and on TLS, with or without target
C14_RedirectToDomain ==
  (WasHandled /\ req.match.found /\ ~AuthorizationFails /\ Entry.redirectToDomain # <<>>) =>
    /\ res.writeHead = <<Status(302, "Moved somewhere else")>>
    /\ Location = <<"https:", "/", "/">> \o Entry.redirectToDomain \o req.url
    /\ res.body = <<>> /\ res.ended = 1
    /\ ~proxyRequest.created

\* C15: with redirectToUrl set, no redirectToDomain and authorization passing or
\* unset the response is 302 "Moved somewhere else" with Location equal to the
\* configured redirectToUrl, whatever the request URL
C15_RedirectToUrl ==
  (/\ WasHandled /\ req.match.found /\ ~AuthorizationFails
   /\ Entry.redirectToDomain = <<>> /\ Entry.redirectToUrl # <<>>) =>
    /\ res.writeHead = <<Status(302, "Moved somewhere else")>>
    /\ Location = Entry.redirectToUrl
    /\ res.body = <<>> /\ res.ended = 1
    /\ ~proxyRequest.created

\* C15 witness: a request for /api/foo?q is redirected to the configured URL as it is
C15_Witness ==
  /\ phase = "returned" /\ req.match.found
  /\ req.url = <<"/", "api", "/", "foo", "?", "q">>
  /\ Entry.redirectToUrl = AnotherUrl /\ Entry.redirectToDomain = <<>>
  /\ Entry.redirectToHttps /\ ~req.isSsl
  /\ Location = AnotherUrl

----------------------------------------------------------------------------
(* Claims on CORS and upstream headers *)

CorsHeaderNames ==
  {"vary", "access-control-allow-origin", "access-control-allow-headers",
   "access-control-allow-methods", "access-control-allow-credentials"}

PreflightAnswer ==
  /\ res.writeHead = <<Status(204, "")>>
  /\ CorsHeaderNames \cup {"content-length"} \subseteq DOMAIN res.headers
  /\ res.headers["content-length"] = <<"0">>
  /\ res.body = <<>> /\ res.ended = 1
  /\ ~proxyRequest.created

\* C16: a matched request is answered as preflight (204, Content-Length: 0, CORS
\* headers, empty body, no upstream request) iff it is OPTIONS, the entry has cors,
\* it has an Origin header and no earlier rule applies; an OPTIONS request without
\* Origin or to an entry without cors is forwarded
C16_Preflight ==
  (WasHandled /\ req.match.found) =>
    /\ PreflightAnswer <=> EarliestRule = "preflight"
    /\ (req.method = "OPTIONS" /\ EarliestRule = "forward" /\ Entry.target.ok) =>
         proxyRequest.created /\ res.writeHead = <<>>

\* host[:port] of the entry's target
TargetHost ==
  Entry.target.hostname \o
    (IF Entry.target.port = <<>> THEN <<>> ELSE <<":">> \o Entry.target.port)

\* C17: the Host header of a forwarded request is the incoming Host when
\* preserveHost is true and the target's hostname[:port] otherwise, whatever the
\* incoming headers and the entry's extra headers hold
C17_UpstreamHost ==
  (phase = "forwarding" /\ proxyRequest.created) =>
    /\ "host" \in DOMAIN proxyRequest.headers
    /\ proxyRequest.headers["host"] = IF Entry.preserveHost THEN IncomingHost ELSE TargetHost

\* the parts of the entry's headers string, and the key and value of a part: what
\* is before and what is after its first colon, without the blanks around
HeaderParts == Split(Entry.headers, "|")
KeyOf(part) == Trim(SubSeq(part, 1, IndexOf(part, ":") - 1))
ValueOf(part) == Trim(SubSeq(part, IndexOf(part, ":") + 1, Len(part)))

\* C18: every part of the entry's headers is set on the upstream request under its
\* trimmed key with its trimmed value, which is everything after the first colon,
\* in place of a header of that name copied from the incoming request (Host
\* aside, which is set afterwards)
C18_ExtraHeaders ==
  (phase = "forwarding" /\ proxyRequest.created /\ Entry.headers # <<>>) =>
    \A i \in DOMAIN HeaderParts :
      KeyOf(HeaderParts[i]) # <<"host">> =>
        /\ KeyOf(HeaderParts[i])[1] \in DOMAIN proxyRequest.headers
        /\ proxyRequest.headers[KeyOf(HeaderParts[i])[1]] = ValueOf(HeaderParts[i])

\* the path of the request URL, and what follows the entry's path and a "/" in it
PathOfRequest ==
  IF \E k \in 1..Len(req.url) : req.url[k] = "?"
  THEN SubSeq(req.url, 1, (CHOOSE k \in 1..Len(req.url) : req.url[k] = "?") - 1)
  ELSE req.url
RestOfPath == SubSeq(PathOfRequest, Len(Entry.path) + 2, Len(PathOfRequest))

\* the request path is the entry's path or goes on with "/" after it
UnderEntryPath ==
  /\ Entry.path # <<>>
  /\ Len(PathOfRequest) >= Len(Entry.path)
  /\ SubSeq(PathOfRequest, 1, Len(Entry.path)) = Entry.path
  /\ Len(PathOfRequest) > Len(Entry.path) => PathOfRequest[Len(Entry.path) + 1] = "/"

\* the base path of the target without the "/" at its end, "/" itself aside
BaseWithoutSlash ==
  IF Len(Entry.target.pathname) > 1
  THEN SubSeq(Entry.target.pathname, 1, Len(Entry.target.pathname) - 1)
  ELSE Entry.target.pathname

\* C30: a request forwarded to an entry with path P whose path is P or P/rest goes
\* upstream with the base path of the target followed by rest, whatever the base
\* path is (for the path P itself the base path, with or without its last "/")
C30_PathStripping ==
  (phase = "forwarding" /\ proxyRequest.created /\ UnderEntryPath) =>
    IF RestOfPath = <<>>
    THEN proxyRequest.url.pathname \in {Entry.target.pathname, BaseWithoutSlash}
    ELSE proxyRequest.url.pathname = Entry.target.pathname \o RestOfPath

----------------------------------------------------------------------------
(* SpecUpstream: a forwarded request and what the upstream does with it *)

\* one entry with a target, cors on or off; GET and OPTIONS requests with and
\* without Origin; upstream responses 200 and 404; chunks of body; error codes
NextUpstream ==
  \/ \E c \in BOOLEAN :
       /\ proxies = <<>> /\ phase = "idle"
       /\ add(ProxyEntry([domain |-> ExampleCom, target |-> UpstreamLocal, cors |-> c]))
  \/ \E m \in {"GET", "OPTIONS"}, isSsl \in BOOLEAN,
        h \in HeaderMaps([host |-> {ExampleCom},
                          origin |-> {<<"http:", "/", "/", "example", ".", "com", "/">>,
                                      <<"null">>}]) :
       onRequest(Request(m, <<"/", "test">>, h), isSsl)
  \/ \E c \in {200, 404},
        h \in {[n \in {"content-type"} |-> <<"text/plain">>],
               [n \in {"content-type", "vary"} |-> <<"upstream">>]} :
       UpstreamResponse([statusCode |-> c, statusMessage |-> "OK", headers |-> h])
  \/ \E chunk \in {<<"chunk">>} : UpstreamData(chunk)
  \/ \E chunk \in {<<"a">>, <<"b">>} : RequestData(chunk)
  \/ RequestEnd
  \/ UpstreamEnd
  \/ \E code \in {"ECONNREFUSED", "ECONNRESET", "ETIMEDOUT"} : UpstreamError(code)
  \/ NextRequest

SpecUpstream == InitLookup /\ [][NextUpstream]_vars

----------------------------------------------------------------------------
(* Claims on upstream errors (SpecUpstream) *)

\* C19: an upstream error is emitted on proxyerror; with code ECONNREFUSED or
\* ECONNRESET the response is 502 with an empty body, with another code it is
\* 500 with an empty body when the response headers had not been sent
C19_ErrorMapping ==
  proxyRequest.error # "" =>
    /\ proxyRequest.error \in events.proxyerror
    /\ proxyRequest.error \in {"ECONNREFUSED", "ECONNRESET"} =>
         res.writeHead = <<Status(502, "")>> /\ res.body = <<>> /\ res.ended = 1
    /\ (proxyRequest.error \notin {"ECONNREFUSED", "ECONNRESET"} /\ ~proxyRequest.response) =>
         res.writeHead = <<Status(500, "")>> /\ res.body = <<>> /\ res.ended = 1

----------------------------------------------------------------------------
(* Claims on the forwarded response (SpecUpstream) *)

\* C34: once the upstream has responded (and raised no error) the response holds
\* the upstream's headers, over them the CORS headers exactly when the request is
\* not OPTIONS, the entry has cors and the request has an Origin, one status line
\* which is the upstream's, the chunks of body in arrival order, and is ended
\* exactly when the upstream response has ended
C34_ResponseOrder ==
  (proxyRequest.response /\ proxyRequest.error = "") =>
    /\ Len(res.writeHead) = 1
    /\ res.writeHead[1].message = "OK" /\ res.writeHead[1].code \in {200, 404}
    /\ "content-type" \in DOMAIN res.headers
    /\ res.headers["content-type"] \in {<<"text/plain">>, <<"upstream">>}
    /\ IF IsCorsSimple
       THEN /\ "vary" \in DOMAIN res.headers /\ res.headers["vary"] = <<"Origin">>
            /\ "access-control-allow-origin" \in DOMAIN res.headers
            /\ res.headers["access-control-allow-origin"] = CorsOrigin(req).origin
       ELSE /\ "access-control-allow-origin" \notin DOMAIN res.headers
            /\ "vary" \in DOMAIN res.headers => res.headers["vary"] = <<"upstream">>
    /\ \A i \in 1..Len(res.body) : res.body[i] = <<"chunk">>
    /\ res.ended <= 1
    /\ res.ended = 1 <=> phase = "returned"

\* the upstream request of the request in hand does not change
SameUpstreamBody ==
  proxyRequest'.chunks = proxyRequest.chunks /\ proxyRequest'.ended = proxyRequest.ended

\* C35: the chunks written to the upstream request of a forwarded request are the
\* chunks of the incoming body in arrival order; the upstream request is ended
\* once, when and only when the incoming body has ended; and nothing is written
\* to it or ended on it again after that
C35_BodyStreaming ==
  /\ [](proxyRequest.created =>
          /\ proxyRequest.chunks = req.received
          /\ proxyRequest.ended = IF req.complete THEN 1 ELSE 0)
  /\ [][(proxyRequest.created /\ proxyRequest.ended = 1 /\ proxyRequest'.created)
          => SameUpstreamBody]_vars

\* C35 witness: two different chunks were piped, then the incoming body ended
\* while the upstream was responding
C35_Witness ==
  /\ phase = "responding"
  /\ req.received = <<<<"a">>, <<"b">>>> /\ req.complete
  /\ proxyRequest.chunks = <<<<"a">>, <<"b">>>> /\ proxyRequest.ended = 1

----------------------------------------------------------------------------
(* SpecServe: requests of one connection, each followed to the end of its
   response, with an upstream that eventually responds, ends or fails *)

\* entries with and without cors, authorization and the three redirects; plaintext
\* requests with and without Origin and Authorization; chunks of request and
\* response body; the next request of the connection begins when the response of
\* the one in hand has ended
NextServe ==
  \/ \E c \in BOOLEAN, a \in {<<>>, <<"c1">>}, u \in {<<>>, AnotherUrl},
        d \in {<<>>, <<"redirect", ".", "com">>}, s \in BOOLEAN :
       /\ proxies = <<>> /\ phase = "idle"
       /\ add(ProxyEntry([domain |-> ExampleCom, target |-> UpstreamLocal, cors |-> c,
                          authorization |-> a, redirectToUrl |-> u,
                          redirectToDomain |-> d, redirectToHttps |-> s]))
  \/ \E m \in {"GET", "OPTIONS"},
        h \in HeaderMaps([host |-> {ExampleCom, OtherOrg},
                          origin |-> {<<"http:", "/", "/", "example", ".", "com", "/">>},
                          authorization |-> {<<"Basic", " ", "c1">>}]) :
       onRequest(Request(m, <<"/", "test">>, h), FALSE)
  \/ \E c \in {200, 404} :
       UpstreamResponse([statusCode |-> c, statusMessage |-> "OK",
                         headers |-> [n \in {"content-type"} |-> <<"text/plain">>]])
  \/ \E chunk \in {<<"chunk">>} : UpstreamData(chunk)
  \/ UpstreamEnd
  \/ \E code \in {"ECONNREFUSED", "ECONNRESET", "ETIMEDOUT"} : UpstreamError(code)
  \/ \E chunk \in {<<"a">>} : RequestData(chunk)
  \/ RequestEnd
  \/ res.ended >= 1 /\ NextRequest

\* the upstream does not stay silent: an upstream request that has neither been
\* answered completely nor failed is eventually answered completely or fails
SpecServe ==
  /\ InitLookup
  /\ [][NextServe]_vars
  /\ WF_vars(\/ UpstreamEnd
             \/ \E code \in {"ECONNREFUSED", "ECONNRESET", "ETIMEDOUT"} : UpstreamError(code))

\* C36: the response of every request given to onRequest is eventually ended
C36_ResponseEnded == (phase # "idle") ~> (res.ended >= 1)

\* the response was answered by createRequest itself: the status lines of
\* notFound, of the authorization check, of the redirects and of the preflight
ShortCircuit ==
  /\ res.writeHead # <<>>
  /\ res.writeHead[1] \in {Status(404, "Not found"), Status(401, ""),
                           Status(302, "Moved somewhere else"),
                           Status(301, "HTTPS is better"), Status(204, "")}

\* C37: a request answered with 404, 401, a redirect or a preflight 204 has no
\* upstream request, its response has one status line, an empty body and was
\* ended once, and nothing happens to the response or to an upstream request
\* afterwards (no listener of the request body or of an upstream exists)
C37_ShortCircuit ==
  /\ [](ShortCircuit =>
          /\ ~proxyRequest.created /\ proxyRequest = NoRequest
          /\ Len(res.writeHead) = 1 /\ res.body = <<>> /\ res.ended = 1
          /\ req.received = <<>> /\ ~req.complete
          /\ phase = "returned")
  /\ [][ShortCircuit => (phase' = "idle" \/ (res' = res /\ proxyRequest' = proxyRequest
                                               /\ req' = req))]_vars

\* C37 witness: a request without credentials to an entry with authorization, a
\* redirect and cors was answered 401
C37_Witness ==
  /\ res.writeHead = <<Status(401, "")>> /\ res.ended = 1
  /\ Entry.authorization = <<"c1">> /\ Entry.redirectToUrl # <<>> /\ Entry.cors
  /\ ~Truthy(req.headers, "authorization")

----------------------------------------------------------------------------
(* Claims on reset (SpecCerts) *)

\* no entry, no certificate, no server listening, no reload timer running
Clean ==
  /\ proxies = <<>>
  /\ certs = EmptyMap
  /\ servers.listening = {}
  /\ timers = {}

\* C20: a freshly constructed server has an empty table, an empty certificate map,
\* no listener and no reload timer, and so has the server after every call of
\* reset, from whatever state it is called
C20_ResetCleans == Clean /\ [][reset => Clean']_vars

\* no call of start since the last call of reset (the constructor calls reset)
ResetLast == \A i \in DOMAIN starts : starts[i].reset

\* C23: after a call of reset that no call of start follows no reload timer is
\* active, so that no timer-triggered reload fires, also when reset was called
\* while a call of start was awaiting its certificate load
C23_TimerCancelled == ResetLast => timers = {}

\* C24: with autoReload > 0 at most one reload timer is active in every reachable
\* state, whatever calls of start, reset and reload were made; with autoReload = 0
\* there is none
C24_SingleTimer ==
  /\ Cardinality(timers) <= 1
  /\ settings.autoReload = 0 => timers = {}

\* every call of loadCertificates has ended and reset was not called after the
\* last one began
ReloadsCompleted ==
  /\ settings.httpsPort # 0
  /\ loads # <<>>
  /\ \A i \in DOMAIN loads : loads[i].pc \in {"done", "failed"}
  /\ loads[Len(loads)].attached

\* C25: once every reload in flight has completed, overlapping or not, the map
\* holds exactly the listed folders whose files load, each bound to its own context
C25_ConcurrentReloads ==
  ReloadsCompleted => certs = [f \in ListedFolders \cap disk.loadable |-> SecureContext(f)]

\* a call of reset would leave the table, the map, the listeners, the timers and
\* the loads in flight as they are
ResetChangesNothing ==
  /\ proxies = <<>>
  /\ certs = EmptyMap
  /\ servers.listening \ servers.list = servers.listening
  /\ timers \ {autoReload} = timers
  /\ Detached(loads) = loads

\* C26: after a call of reset, from whatever state, a second call right after it
\* changes nothing, and the state the two calls leave is the one a reset is to
\* leave: no entry, no certificate, no timer, no listener
C26_ResetIdempotent == [][reset => (ResetChangesNothing' /\ Clean')]_vars

\* loadCertificates was not called since the last call of reset: every call makes
\* its own map this.certs, and only reset takes it away from the last one
NoLoadSinceReset == \A i \in DOMAIN loads : ~loads[i].attached

\* C38: after reset, and until reload or start is called again (by the program or
\* by the reload timer), the certificate map is empty and a handshake finds no
\* certificate, whatever the loads that were in flight go on to load
C38_ResetDetaches ==
  NoLoadSinceReset =>
    /\ certs = EmptyMap
    /\ sni.called => (sni.certs = EmptyMap /\ ~sni.found)

\* C38 witness: reset was called while start awaited its load; the load has since
\* loaded every folder of a listing with certificates and is done, and start has
\* not resumed yet
C38_Witness ==
  /\ NoLoadSinceReset /\ certs = EmptyMap
  /\ settings.httpsPort # 0
  /\ ListedFolders \cap disk.loadable # {}
  /\ \E i \in DOMAIN starts :
       /\ starts[i].reset /\ starts[i].pc = "awaiting"
       /\ loads[starts[i].load].pc = "done"

----------------------------------------------------------------------------
(* SpecLaunch: the launcher (cli.mts, lines 41-63) calls start without awaiting it
   and then adds its entries; start's continuation runs when the load has ended *)

\* calls of start, of add after a call of start, and of reset; the steps of the
\* loads and of start's continuation. A call of add, like one of reset, cannot
\* run between the end of a file operation and the continuation it resumes
NextLaunch ==
  \/ start
  \/ \E d \in {OtherOrg, DomainB} :
       /\ starts # <<>> /\ Len(proxies) < MaxEntries /\ ~SettledByIo
       /\ add(ProxyEntry([domain |-> d]))
  \/ reset
  \/ \E i \in DOMAIN loads : ReaddirDone(i)
  \/ \E i \in DOMAIN loads : LoadCertificate(i)
  \/ \E i \in DOMAIN starts : StartResume(i)
  \/ \E i \in DOMAIN starts : StartCreateServers(i)
  \/ \E i \in DOMAIN starts : StartAdd(i)

SpecLaunch == InitCerts /\ [][NextLaunch]_vars

\* the table after the step begins with the table before it
TableExtended ==
  /\ Len(proxies') >= Len(proxies)
  /\ \A k \in DOMAIN proxies : proxies'[k] = proxies[k]

\* C39: when a call of start completes, the table is the table as it was, with
\* every entry added before or during the call in the order added, followed by
\* the entries of settings.proxies; and no step but a call of reset takes an entry
\* from the table or moves one
C39_AddDuringStart ==
  /\ [][(\E i \in DOMAIN starts : starts[i].pc # "done" /\ starts'[i].pc = "done")
          => proxies' = proxies \o settings.proxies]_vars
  /\ [][proxies' # proxies => (TableExtended \/ reset)]_vars

\* C39 witness: one call of start, no reset after it; two entries were added
\* after start was called and before it completed, and start has completed
C39_Witness ==
  /\ Len(starts) = 1 /\ starts[1].pc = "done" /\ ~starts[1].reset
  /\ settings.proxies # <<>>
  /\ proxies = <<ProxyEntry([domain |-> OtherOrg]), ProxyEntry([domain |-> DomainB])>>
                 \o settings.proxies

\* the servers that call i of start created, in this.servers or listening
ServersOf(i) == {s \in servers.list \cup servers.listening : s.id = i}

\* C27: start performs its steps in order. A listener exists only when the
\* initial load of the call that opened it has completed; the reload timer is
\* installed when the listeners are about to be opened and not before the load has
\* ended; a TLS handshake is served only by such a listener; and the table grows
\* only by the entries of settings.proxies, in their order, appended by a call of
\* start that has opened its listeners
C27_StartOrder ==
  /\ [](\A i \in DOMAIN starts :
          /\ ServersOf(i) # {} =>
               loads[starts[i].load].pc = "done" /\ starts[i].pc \in {"add", "done"}
          /\ starts[i].pc = "createServers" => (settings.autoReload # 0 => i \in timers)
          /\ starts[i].pc = "awaiting" => i \notin timers)
  /\ [](sni.called =>
          \E s \in servers.listening : s.isSsl /\ loads[starts[s.id].load].pc = "done")
  /\ [][proxies' # proxies /\ proxies' # <<>> =>
         \E i \in DOMAIN starts :
           /\ starts[i].pc = "add" /\ starts'[i].pc = "done"
           /\ ServersOf(i) = Created(i)
           /\ proxies' = proxies \o settings.proxies]_vars

\* C27 witness: the load is done, the timer is installed, the listeners are open
\* and the entries of settings.proxies are not in the table yet
C27_Witness ==
  /\ Len(starts) = 1 /\ starts[1].pc = "add"
  /\ loads[1].pc = "done" /\ DOMAIN certs # {}
  /\ timers = {1}
  /\ servers.listening = Created(1)
  /\ proxies = <<>>

----------------------------------------------------------------------------
(* SpecUpgrade: upgrade requests on one entry, with and without a fallback *)

\* GET and POST requests with every Upgrade header: websocket in two spellings,
\* another protocol, empty, absent; hosts that match, do not match, do not parse
NextUpgrade ==
  \/ \E t \in {NoTarget, UpstreamLocal}, a \in {<<>>, <<"c1">>}, u \in {<<>>, AnotherUrl} :
       /\ proxies = <<>> /\ phase = "idle"
       /\ add(ProxyEntry([domain |-> ExampleCom, target |-> t, authorization |-> a,
                          redirectToUrl |-> u]))
  \/ \E m \in {"GET", "POST"}, isSsl \in {FALSE}, head \in {<<>>, <<Bytes("head")>>},
        h \in HeaderMaps([host |-> {ExampleCom, OtherOrg, <<"exa", " ", "mple">>},
                          upgrade |-> {<<"websocket">>, <<"WebSocket">>, <<"h2c">>, <<>>},
                          authorization |-> {<<"Basic", " ", "c1">>}]) :
       onUpgrade(Request(m, <<"/", "test">>, h), head, isSsl)
  \/ \E h \in {EmptyMap, [upgrade |-> <<"websocket">>]}, proxyHead \in {<<>>, <<Bytes("u0")>>} :
       UpstreamUpgrade([headers |-> h], proxyHead)
  \/ \E side \in {"client", "upstream"} :
       SocketData(side, Bytes(IF side = "client" THEN "x" ELSE "y"))
  \/ \E side \in {"client", "upstream"} : Pipe(side)
  \/ \E e \in {<<"proxyReq", "ETIMEDOUT">>, <<"proxySocket", "ECONNRESET">>,
              <<"socket", "EPIPE">>} : TunnelError(e[1], e[2])
  \/ NextRequest

SpecUpgrade == Init /\ [][NextUpgrade]_vars

----------------------------------------------------------------------------
(* Claims on upgrade requests (SpecUpgrade) *)

\* the Upgrade header names the websocket protocol, in any case
AsksWebSocket ==
  /\ "upgrade" \in DOMAIN req.headers
  /\ req.headers["upgrade"] \in {<<"websocket">>, <<"WebSocket">>}

\* C21: an upgrade request whose method is not GET, or whose Upgrade header is
\* missing or not websocket in any case, or that matches no entry, has its socket
\* destroyed with nothing written to it, no upstream request and no fallback call
C21_InvalidUpgrade ==
  (WasHandled /\ (req.method # "GET" \/ ~AsksWebSocket \/ ~req.match.found)) =>
    /\ socket.destroyed
    /\ socket.written = <<>>
    /\ ~proxyRequest.created
    /\ fallbackCalls = 0

\* C31: a valid upgrade request (GET, Upgrade: websocket) that matches an entry
\* with a target opens the upstream request a forward of the same request would
\* open, same URL and same headers, and ends it at once with no body, also when
\* the entry has authorization or a redirect configured
C31_UpgradeRequest ==
  (WasHandled /\ req.method = "GET" /\ AsksWebSocket /\ req.match.found /\ Entry.target.ok) =>
    /\ ~thrown
    /\ proxyRequest.created
    /\ proxyRequest.chunks = <<>> /\ proxyRequest.ended = 1
    /\ proxyRequest.url = TargetUrl(req, Entry)
    /\ proxyRequest.headers =
         Forward(Request(req.method, req.url, req.headers), Entry, req.isSsl).proxyRequest.headers

\* the positions of what was written to the client socket that hold the head of
\* the handshake answer
HeadsWritten == {k \in DOMAIN socket.written : socket.written[k].kind = "head"}

\* C32: the head 101 Switching Protocols is written to the client socket only
\* after the upstream has upgraded, once, before every byte of the upstream; and
\* no byte of the client reaches the upstream socket before the upstream upgraded
C32_HandshakeOrder ==
  /\ HeadsWritten # {} => proxySocket.open /\ proxyRequest.response
  /\ HeadsWritten \subseteq {1}
  /\ socket.written # <<>> => HeadsWritten = {1}
  /\ proxySocket.open => HeadsWritten = {1}
  /\ proxySocket.written # <<>> => proxySocket.open /\ HeadsWritten = {1}
  /\ socket.written # <<>> =>
       socket.written[1] = createWebSocketResponseHeaders(socket.written[1].headers)

\* C32 witness: bytes of the client waited for the upgrade; after it the client
\* has the head, then the bytes the upstream sent with its answer, then later ones
C32_Witness ==
  /\ phase = "tunnel"
  /\ Len(socket.written) = 3
  /\ socket.written[1].kind = "head"
  /\ socket.written[2] = Bytes("u0") /\ socket.written[3] = Bytes("y")
  /\ proxySocket.written = <<Bytes("head"), Bytes("x")>>

\* C33: in an upgrade tunnel every error of the client socket, of the upstream
\* socket and of the upstream request is emitted on proxyerror, and an error of
\* the client socket closes the upstream side, at any point after the request
\* was accepted: the upstream socket when the upstream has upgraded, the
\* upstream request before
C33_TunnelErrors ==
  /\ proxyRequest.error # "" => proxyRequest.error \in events.proxyerror
  /\ proxySocket.error # "" => proxySocket.error \in events.proxyerror
  /\ socket.error # "" =>
       /\ socket.error \in events.proxyerror
       /\ ~thrown
       /\ IF proxySocket.open THEN proxySocket.ended ELSE proxyRequest.error # ""

====
